---- MODULE Spec2Model ----
(***************************************************************************)
(* A model of the statement editor: the text-to-structure parsing engine   *)
(* (statements/utils.py: _parse_amount, _normalize_multiline_dates,        *)
(* _parse_sbi_post_value, _parse_sbi_txn_value, parse_pdf_to_data), the    *)
(* renderer's rows and running balance (generate_pdf_from_data) and the    *)
(* requests that store, edit and render a statement (statements/views.py). *)
(* The parsers are modelled as functions of the document and, for their    *)
(* segmentation loops, also one iteration at a time (SpecSegment).         *)
(*                                                                         *)
(* Text is modelled as sequences of one-character strings, so that the     *)
(* regular expressions and the str methods of the source are computed      *)
(* character by character.  Amounts are exact decimals, held as integers   *)
(* in units of 10^-FracDigits (Python's float is not modelled bit by bit). *)
(***************************************************************************)
EXTENDS Integers, Sequences, FiniteSets, TLC

VARIABLES
    amtTok,        \* the amount token under test, as its parts (or NoTok)
    text,          \* the string handed to _parse_amount
    amtOut,        \* what _parse_amount did: [exc, value]
    lines,         \* the document: what _extract_all_lines returns
    normalized,    \* _normalize_multiline_dates(lines)
    renormalized,  \* _normalize_multiline_dates(normalized)
    layout,        \* the caller's layout hint (None when absent)
    parsed,        \* what parse_pdf_to_data did: locals, exception, statement
    stmt,          \* the Statement object handed to generate_pdf_from_data
    story,         \* the flowables generate_pdf_from_data built
    scan,          \* a segmentation loop under way: its index and its locals
    pc             \* position of the run

amtVars == <<amtTok, text, amtOut>>
normVars == <<normalized, renormalized>>
parseVars == <<layout, parsed>>
renderVars == <<stmt, story>>
scanVars == <<scan>>
vars ==
    <<amtTok, text, amtOut, lines, normalized, renormalized, layout, parsed, stmt, story, scan, pc>>

\* Python's None, where a variable holds either None or a record
None == [none |-> TRUE]

----------------------------------------------------------------------------
(* Bounds of the model *)

MaxAmtLen == 4
FracDigits == 3

----------------------------------------------------------------------------
(* Characters and the str methods the source uses *)

Chars(str) == [k \in 1..Len(str) |-> SubSeq(str, k, k)]

LowerLetters == Chars("abcdefghijklmnopqrstuvwxyz")
UpperLetters == Chars("ABCDEFGHIJKLMNOPQRSTUVWXYZ")
DigitChars == Chars("0123456789")

Range(f) == {f[k] : k \in DOMAIN f}

DigitSet == Range(DigitChars)
LowerSet == Range(LowerLetters)
UpperSet == Range(UpperLetters)

IsDigit(c) == c \in DigitSet
IsAlpha(c) == c \in LowerSet \cup UpperSet
IsSpace(c) == c = " "

IndexIn(c, seq) == CHOOSE k \in DOMAIN seq : seq[k] = c

UpperOf == [c \in LowerSet |-> UpperLetters[IndexIn(c, LowerLetters)]]
LowerOf == [c \in UpperSet |-> LowerLetters[IndexIn(c, UpperLetters)]]
UpperChar(c) == IF c \in LowerSet THEN UpperOf[c] ELSE c
LowerChar(c) == IF c \in UpperSet THEN LowerOf[c] ELSE c

\* str.upper(), str.lower()
StrUpper(s) == [k \in DOMAIN s |-> UpperChar(s[k])]
StrLower(s) == [k \in DOMAIN s |-> LowerChar(s[k])]

DigitVal(c) == IndexIn(c, DigitChars) - 1

\* s[a:] with a 0-based, as Python slices
From(s, a) == SubSeq(s, a + 1, Len(s))

\* s.startswith(p), matched at 0-based offset a
MatchesAt(s, a, p) == a + Len(p) <= Len(s) /\ \A k \in 1..Len(p) : s[a + k] = p[k]
StartsWith(s, p) == MatchesAt(s, 0, p)

\* p in s
Contains(s, p) == \E a \in 0..Len(s) : MatchesAt(s, a, p)

\* s.replace(old, new): left to right, non-overlapping; old is non-empty
RECURSIVE StrReplace(_, _, _)
StrReplace(s, old, new) ==
    IF Len(s) < Len(old) THEN s
    ELSE IF StartsWith(s, old) THEN new \o StrReplace(From(s, Len(old)), old, new)
    ELSE <<s[1]>> \o StrReplace(Tail(s), old, new)

\* s.strip()
RECURSIVE LStrip(_)
LStrip(s) == IF s # <<>> /\ IsSpace(s[1]) THEN LStrip(Tail(s)) ELSE s
RECURSIVE RStrip(_)
RStrip(s) == IF s # <<>> /\ IsSpace(s[Len(s)]) THEN RStrip(SubSeq(s, 1, Len(s) - 1)) ELSE s
Strip(s) == RStrip(LStrip(s))

\* sep.join(parts)
RECURSIVE Join(_, _)
Join(parts, sep) ==
    IF parts = <<>> THEN <<>>
    ELSE IF Len(parts) = 1 THEN parts[1]
    ELSE LET h == Len(parts) \div 2
         IN  Join(SubSeq(parts, 1, h), sep) \o sep \o Join(SubSeq(parts, h + 1, Len(parts)), sep)

\* all sequences over S of length at most n
RECURSIVE SeqsUpTo(_, _)
SeqsUpTo(S, n) ==
    IF n = 0 THEN {<<>>}
    ELSE LET shorter == SeqsUpTo(S, n - 1)
         IN  shorter \cup {Append(q, c) : q \in shorter, c \in S}

----------------------------------------------------------------------------
(* Decimal values *)

RECURSIVE Pow10(_)
Pow10(n) == IF n = 0 THEN 1 ELSE 10 * Pow10(n - 1)

Scale == Pow10(FracDigits)

\* the integer a digit string denotes
RECURSIVE IntOfDigits(_)
IntOfDigits(ds) ==
    IF ds = <<>> THEN 0
    ELSE 10 * IntOfDigits(SubSeq(ds, 1, Len(ds) - 1)) + DigitVal(ds[Len(ds)])

\* the value of a digit string read as a fraction 0.ds, in units of 1/Scale
RECURSIVE FracOfDigits(_, _)
FracOfDigits(ds, unit) ==
    IF ds = <<>> \/ unit = 0 THEN 0
    ELSE DigitVal(ds[1]) * unit + FracOfDigits(Tail(ds), unit \div 10)

\* n.dd as a value: n units and h hundredths
Dec(n, h) == n * Scale + h * (Scale \div 100)

----------------------------------------------------------------------------
(* _parse_amount *)

Returned(v) == [exc |-> "none", value |-> v]
Raised(e) == [exc |-> e, value |-> 0]

AllDigits(s) == \A k \in DOMAIN s : IsDigit(s[k])

\* float(s) for s made of digits, "." and "-" (what line 26 leaves):
\* [-] digits [. [digits]]  or  [-] . digits ; anything else is a ValueError
FloatBody(s) == IF s # <<>> /\ s[1] = "-" THEN Tail(s) ELSE s
FloatDot(b) == IF \E k \in DOMAIN b : b[k] = "." THEN IndexIn(".", b) ELSE 0
FloatInt(b) == IF FloatDot(b) = 0 THEN b ELSE SubSeq(b, 1, FloatDot(b) - 1)
FloatFrac(b) == IF FloatDot(b) = 0 THEN <<>> ELSE From(b, FloatDot(b))
FloatSyntaxOK(s) ==
    LET b == FloatBody(s)
    IN  /\ AllDigits(FloatInt(b))
        /\ AllDigits(FloatFrac(b))
        /\ Len(FloatInt(b)) + Len(FloatFrac(b)) > 0
float(s) ==
    IF ~FloatSyntaxOK(s) THEN Raised("ValueError")
    ELSE LET b == FloatBody(s)
             mag == IntOfDigits(FloatInt(b)) * Scale + FracOfDigits(FloatFrac(b), Scale \div 10)
         IN  Returned(IF s[1] = "-" THEN 0 - mag ELSE mag)

\* line 22: s.replace("CR", "").replace("DR", "")
StripCrDr(s) == StrReplace(StrReplace(s, Chars("CR"), <<>>), Chars("DR"), <<>>)

\* line 23: s.replace(",", "")
StripSeparators(s) == StrReplace(s, Chars(","), <<>>)

\* line 25: s.replace("(", "-").replace(")", "")
ParenthesizedUnsigned(s) == StrReplace(StrReplace(s, Chars("("), <<>>), Chars(")"), <<>>)
Parenthesized(s) == StrReplace(StrReplace(s, Chars("("), Chars("-")), Chars(")"), <<>>)

\* line 26: re.sub(r"[^\d\.-]", "", s).strip()
AmountChar(c) == IsDigit(c) \/ c = "." \/ c = "-"
CleanAmount(s) == Strip(SelectSeq(s, AmountChar))

\* lines 27-28: float(s) if s not in ("", "-", ".") else 0.0
FloatOrZero(s) == IF s \in {<<>>, <<"-">>, <<".">>} THEN Returned(0) ELSE float(s)

\* lines 29-30: except Exception: return 0.0
ExceptNothing(r) == r
ExceptException(r) == IF r.exc # "none" THEN Returned(0) ELSE r

\* lines 21-26: the cleaned string handed to float(); "~" stands for U+00A0
Cleaned(t) ==
    CleanAmount(Parenthesized(
        StrReplace(StripSeparators(StripCrDr(StrUpper(t))), <<"~">>, <<" ">>)))

_parse_amount(t) ==
    IF t = <<>> THEN Returned(0)
    ELSE ExceptException(FloatOrZero(Cleaned(t)))

----------------------------------------------------------------------------
(* Amount tokens: the grammar of section 4.1, built from parts *)

NoTok == [kind |-> "raw"]

\* the decimal digits of n
RECURSIVE DigitsOf(_)
DigitsOf(n) == IF n < 10 THEN <<DigitChars[n + 1]>> ELSE DigitsOf(n \div 10) \o <<DigitChars[(n % 10) + 1]>>

\* digits with a thousands separator before every group of three
RECURSIVE Grouped(_)
Grouped(ds) ==
    IF Len(ds) <= 3 THEN ds
    ELSE Grouped(SubSeq(ds, 1, Len(ds) - 3)) \o <<",">> \o SubSeq(ds, Len(ds) - 2, Len(ds))

TokInts == {0, 7, 500, 1234, 4500, 123456}
TokFracs == {[txt |-> "", h |-> 0], [txt |-> ".", h |-> 0], [txt |-> ".5", h |-> 50],
             [txt |-> ".50", h |-> 50], [txt |-> ".05", h |-> 5], [txt |-> ".00", h |-> 0]}
TokSuffixes == {"", "CR", "DR", "cr", "Dr"}

AmountTokens ==
    [kind : {"token"}, int : TokInts, frac : TokFracs, sep : BOOLEAN,
     suffix : TokSuffixes, paren : BOOLEAN]

TokenText(tok) ==
    LET ds == DigitsOf(tok.int)
        body == (IF tok.sep THEN Grouped(ds) ELSE ds) \o Chars(tok.frac.txt) \o Chars(tok.suffix)
    IN  IF tok.paren THEN <<"(">> \o body \o <<")">> ELSE body

TokenValue(tok) ==
    LET mag == Dec(tok.int, tok.frac.h)
    IN  IF tok.paren THEN 0 - mag ELSE mag

\* arbitrary strings; "~" stands for the non-breaking space U+00A0
AmtAlphabet == {"1", "0", ".", "-", ",", "(", ")", "c", "R", "~"}
RawStrings == SeqsUpTo(AmtAlphabet, MaxAmtLen)

NoOut == [exc |-> "pending", value |-> 0]

AmountIdle == amtTok = NoTok /\ text = <<>> /\ amtOut = NoOut
NormalizeIdle == normalized = <<>> /\ renormalized = <<>>
\* parse_pdf_to_data not called yet
NoParse == [auto |-> None, use_layout |-> <<>>, result |-> NoOut]
ParseIdle == layout = None /\ parsed = NoParse
RenderIdle == stmt = None /\ story = <<>>
\* no segmentation loop under way
ScanIdle == scan = None

InitAmount ==
    /\ amtTok \in AmountTokens \cup {NoTok}
    /\ text \in (IF amtTok = NoTok THEN RawStrings ELSE {TokenText(amtTok)})
    /\ amtOut = NoOut
    /\ lines = <<>>
    /\ NormalizeIdle /\ ParseIdle /\ RenderIdle
    /\ ScanIdle
    /\ pc = "call"

ParseAmount ==
    /\ pc = "call"
    /\ amtOut' = _parse_amount(text)
    /\ pc' = "returned"
    /\ UNCHANGED <<scanVars, amtTok, text, lines, normVars, parseVars, renderVars>>

NextAmount == ParseAmount

SpecAmount == InitAmount /\ [][NextAmount]_vars

\* C5: _parse_amount never raises, whatever the string; when the cleaned
\* string is empty, "-", "." or not a decimal it returns 0.0.
C5_NeverRaises ==
    pc = "returned" =>
        /\ amtOut.exc = "none"
        /\ (Cleaned(text) \in {<<>>, <<"-">>, <<".">>} \/ ~FloatSyntaxOK(Cleaned(text)))
               => amtOut.value = 0

\* a string with several dots reached the float() call and came back as 0.0
C5_Witness ==
    /\ pc = "returned"
    /\ text = Chars("1.0.")
    /\ ~FloatSyntaxOK(Cleaned(text))
    /\ amtOut = Returned(0)

\* C6: a token of the amount grammar (digits, optional thousands separators,
\* optional decimal point, optional CR/DR in any case, optional parentheses)
\* parses to its magnitude, negated exactly when parenthesized.
\* The empty string gives 0.0.
C6_TokenValue ==
    pc = "returned" =>
        /\ amtTok # NoTok => amtOut = Returned(TokenValue(amtTok))
        /\ text = <<>> => amtOut = Returned(0)

\* "(1,234.50cr)" parsed to -1234.50
C6_Witness ==
    /\ pc = "returned"
    /\ text = Chars("(1,234.50cr)")
    /\ amtOut = Returned(0 - Dec(1234, 50))

----------------------------------------------------------------------------
(* _normalize_multiline_dates *)

AllAlpha(s) == \A k \in DOMAIN s : IsAlpha(s[k])
AllSpaces(s) == \A k \in DOMAIN s : IsSpace(s[k])

\* line 52: ^\d{1,2}\s+[A-Za-z]{3}$
day_mon_re(l) ==
    \E k \in 1..2 :
        /\ Len(l) >= k + 4
        /\ AllDigits(SubSeq(l, 1, k))
        /\ AllSpaces(SubSeq(l, k + 1, Len(l) - 3))
        /\ AllAlpha(SubSeq(l, Len(l) - 2, Len(l)))

\* line 53: ^\d{4}$
year_re(l) == Len(l) = 4 /\ AllDigits(l)

\* line 54: ^\d{1,2}$
short_day_re(l) == Len(l) \in 1..2 /\ AllDigits(l)

\* line 55: ^[A-Za-z]{3}$
short_mon_re(l) == Len(l) = 3 /\ AllAlpha(l)

Sp == <<" ">>

\* lines 57-67: one iteration of the while loop, from index i (0-based)
NormalizeStepLosingYear(ls, i, out) ==
    LET line == ls[i + 1]
    IN  IF i + 1 < Len(ls) /\ day_mon_re(line) /\ year_re(ls[i + 2])
        THEN [i |-> i + 2, out |-> Append(out, line \o Sp \o ls[i + 2])]
        ELSE IF /\ i + 2 < Len(ls) /\ short_day_re(line)
                /\ short_mon_re(ls[i + 2]) /\ year_re(ls[i + 3])
        THEN [i |-> i + 2, out |-> Append(out, line \o Sp \o ls[i + 2])]
        ELSE [i |-> i + 1, out |-> Append(out, line)]

NormalizeStep(ls, i, out) ==
    LET line == ls[i + 1]
    IN  IF i + 1 < Len(ls) /\ day_mon_re(line) /\ year_re(ls[i + 2])
        THEN [i |-> i + 2, out |-> Append(out, line \o Sp \o ls[i + 2])]
        ELSE IF /\ i + 2 < Len(ls) /\ short_day_re(line)
                /\ short_mon_re(ls[i + 2]) /\ year_re(ls[i + 3])
        THEN [i |-> i + 3, out |-> Append(out, line \o Sp \o ls[i + 2] \o Sp \o ls[i + 3])]
        ELSE [i |-> i + 1, out |-> Append(out, line)]

\* line 56: while i < len(lines), over the indexes lo..hi; an index the loop
\* jumped over leaves the state alone.  The range is halved so that the
\* evaluation stays shallow on long documents.
RECURSIVE NormalizeLoop(_, _, _, _)
NormalizeLoop(ls, st, lo, hi) ==
    IF lo > hi THEN st
    ELSE IF lo = hi THEN (IF st.i = lo THEN NormalizeStep(ls, st.i, st.out) ELSE st)
    ELSE LET mid == (lo + hi) \div 2
             left == NormalizeLoop(ls, st, lo, mid)
         IN  IF left = st THEN NormalizeLoop(ls, st, mid + 1, hi)
             ELSE NormalizeLoop(ls, left, mid + 1, hi)

_normalize_multiline_dates(ls) ==
    NormalizeLoop(ls, [i |-> 0, out |-> <<>>], 0, Len(ls) - 1).out

----------------------------------------------------------------------------
(* The normalizer run twice over bounded line sequences *)

MaxNormLines == 5

NormLinePool ==
    {Chars("12 Jan"), Chars("7"), Chars("Jan"), Chars("2024"), Chars("ATM WDL"),
     Chars("7 Jan 2024")}

InitNormalize ==
    /\ lines \in SeqsUpTo(NormLinePool, MaxNormLines)
    /\ NormalizeIdle /\ AmountIdle /\ ParseIdle /\ RenderIdle
    /\ ScanIdle
    /\ pc = "raw"

Normalize ==
    /\ pc = "raw"
    /\ normalized' = _normalize_multiline_dates(lines)
    /\ pc' = "once"
    /\ UNCHANGED <<scanVars, lines, renormalized, amtVars, parseVars, renderVars>>

NormalizeAgain ==
    /\ pc = "once"
    /\ renormalized' = _normalize_multiline_dates(normalized)
    /\ pc' = "twice"
    /\ UNCHANGED <<scanVars, lines, normalized, amtVars, parseVars, renderVars>>

NextNormalize == Normalize \/ NormalizeAgain

SpecNormalize == InitNormalize /\ [][NextNormalize]_vars

\* C4: the normalizer is idempotent: normalizing its own output changes
\* nothing, so no merged line is merged again and no merge creates a new
\* mergeable group.
C4_Idempotent == pc = "twice" => renormalized = normalized

\* both merge patterns fired in the first pass, next to lines that stayed
C4_Witness ==
    /\ pc = "twice"
    /\ lines = <<Chars("12 Jan"), Chars("2024"), Chars("7"), Chars("Jan"), Chars("2024")>>
    /\ normalized = <<Chars("12 Jan 2024"), Chars("7 Jan 2024")>>
    /\ renormalized = normalized

----------------------------------------------------------------------------
(* Regular expressions of the parsers.  Offsets are 0-based, as in Python; *)
(* a matcher returns the offset where the match ends, or -1.               *)

NoMatch == 0 - 1

Max(S) == CHOOSE x \in S : \A y \in S : y <= x
Min(S) == CHOOSE x \in S : \A y \in S : x <= y
Min2(a, b) == IF a < b THEN a ELSE b

\* how many characters from offset a on are digits / whitespace
RECURSIVE DigitRun(_, _)
DigitRun(s, a) == IF a < Len(s) /\ IsDigit(s[a + 1]) THEN 1 + DigitRun(s, a + 1) ELSE 0
RECURSIVE SpaceRun(_, _)
SpaceRun(s, a) == IF a < Len(s) /\ IsSpace(s[a + 1]) THEN 1 + SpaceRun(s, a + 1) ELSE 0

CharAt(s, a) == IF a >= 0 /\ a < Len(s) THEN s[a + 1] ELSE ""

\* s[a:b]
Slice(s, a, b) == SubSeq(s, a + 1, b)

\* \d{1,2}\s+[A-Za-z]{3}\s+\d{4} at offset a
TextDateEnd(s, a) ==
    LET k == DigitRun(s, a)
        sp1 == SpaceRun(s, a + k)
        mon == a + k + sp1
        sp2 == SpaceRun(s, mon + 3)
        yr == mon + 3 + sp2
    IN  IF /\ k \in 1..2 /\ sp1 >= 1
           /\ mon + 3 <= Len(s) /\ AllAlpha(Slice(s, mon, mon + 3))
           /\ sp2 >= 1 /\ DigitRun(s, yr) >= 4
        THEN yr + 4 ELSE NoMatch

\* \d{lo,2}[-/]\d{lo,2}[-/]\d{4} at offset a
NumDateEnd(s, a, lo) ==
    LET k1 == DigitRun(s, a)
        m == a + k1 + 1
        k2 == DigitRun(s, m)
        yr == m + k2 + 1
    IN  IF /\ k1 \in lo..2 /\ CharAt(s, a + k1) \in {"-", "/"}
           /\ k2 \in lo..2 /\ CharAt(s, m + k2) \in {"-", "/"}
           /\ DigitRun(s, yr) >= 4
        THEN yr + 4 ELSE NoMatch

\* an alternation p|q: the end of p where p matches, else that of q
Alternation(e1, e2) == IF e1 # NoMatch THEN e1 ELSE e2

\* lines 94-95: (\d{2}[-/]\d{2}[-/]\d{4}|\d{1,2}\s+[A-Za-z]{3}\s+\d{4})
PostDateEnd(s, a) == Alternation(NumDateEnd(s, a, 2), TextDateEnd(s, a))

\* line 204: date_frag
date_frag(s, a) == Alternation(TextDateEnd(s, a), NumDateEnd(s, a, 1))

NoDates == [matched |-> FALSE]

\* \s+ after a date that ends at e1: the offset where the second date must
\* start, or NoMatch
SecondDateStart(line, e1) ==
    IF e1 = NoMatch \/ SpaceRun(line, e1) = 0 THEN NoMatch ELSE e1 + SpaceRun(line, e1)

\* the match object of two dates: the first in line[lead:e1], the second in
\* line[a2:e2]; rest is what follows the second date and its blanks
TwoDates(line, lead, e1, a2, e2) ==
    IF e2 = NoMatch THEN NoDates
    ELSE [matched |-> TRUE, d1 |-> Slice(line, lead, e1), d2 |-> Slice(line, a2, e2),
          end |-> e2, rest |-> From(line, e2 + SpaceRun(line, e2))]

\* lines 93-96: date_line_pattern, once the first date is matched up to e1
PostFirstDate(line, e1) ==
    LET a2 == SecondDateStart(line, e1)
    IN  TwoDates(line, 0, e1, a2, IF a2 = NoMatch THEN NoMatch ELSE PostDateEnd(line, a2))

\* lines 93-96: date_line_pattern.match(line)
date_line_pattern(line) == PostFirstDate(line, PostDateEnd(line, 0))

\* how many groups ,\d{3} follow each other from offset a on
RECURSIVE GroupRun(_, _)
GroupRun(s, a) ==
    IF CharAt(s, a) = "," /\ DigitRun(s, a + 1) >= 3 THEN 1 + GroupRun(s, a + 4) ELSE 0

\* (?:CR|DR)? at offset e
SuffixEnd(s, e) == IF MatchesAt(s, e, Chars("CR")) \/ MatchesAt(s, e, Chars("DR")) THEN e + 2 ELSE e

\* lines 86, 130, 200: \d{1,3}(?:,\d{3})*\.\d{2}(?:CR|DR)? at offset a.  The
\* engine tries the longest digit run first and the most groups first, and
\* gives back until \.\d{2} fits.
StrictFits(s, a, k, g) ==
    LET p == a + k + 4 * g IN CharAt(s, p) = "." /\ DigitRun(s, p + 1) >= 2
StrictAmountEnd(s, a) ==
    LET ks == {k \in 1..3 : k <= DigitRun(s, a) /\ \E g \in 0..GroupRun(s, a + k) : StrictFits(s, a, k, g)}
    IN  IF ks = {} THEN NoMatch
        ELSE LET k == Max(ks)
                 g == Max({h \in 0..GroupRun(s, a + k) : StrictFits(s, a, k, h)})
             IN  SuffixEnd(s, a + k + 4 * g + 3)

\* re.finditer / re.findall of the strict amount pattern, from offset a on
RECURSIVE StrictAmounts(_, _)
StrictAmounts(s, a) ==
    IF a >= Len(s) THEN <<>>
    ELSE LET e == StrictAmountEnd(s, a)
         IN  IF e = NoMatch THEN StrictAmounts(s, a + 1)
             ELSE <<[tok |-> Slice(s, a, e), start |-> a, end |-> e]>> \o StrictAmounts(s, e)

\* re.sub(r"\s+", " ", s).strip()
\* every run of blanks becomes its first blank: the later ones are dropped
Dropped == "dropped"
NotDropped(c) == c # Dropped
CollapseSpaces(s) ==
    SelectSeq([k \in DOMAIN s |->
                  IF IsSpace(s[k]) /\ k > 1 /\ IsSpace(s[k - 1]) THEN Dropped ELSE s[k]],
              NotDropped)
CollapseAndStrip(s) == Strip(CollapseSpaces(s))

\* s.split(sep)[-1]: what follows the last occurrence of sep (s itself if none)
AfterLast(s, sep) ==
    LET at == {a \in 0..Len(s) : MatchesAt(s, a, sep)}
    IN  IF at = {} THEN s ELSE From(s, Max(at) + Len(sep))

\* s.split(None, 1): the first word, and the rest without its leading blanks
FirstWordEnd(s) == CHOOSE e \in 0..Len(s) :
    /\ \A k \in 1..e : ~IsSpace(s[k])
    /\ e = Len(s) \/ IsSpace(s[e + 1])
SplitOnce(s) ==
    LET t == LStrip(s)
        e == FirstWordEnd(t)
        rest == LStrip(From(t, e))
    IN  IF t = <<>> THEN <<>>
        ELSE IF rest = <<>> THEN <<Slice(t, 0, e)>>
        ELSE <<Slice(t, 0, e), rest>>

----------------------------------------------------------------------------
(* Layout constants, lines 13-15 *)

SBI_POST_VALUE == Chars("SBI_POST_VALUE")
SBI_TXN_VALUE == Chars("SBI_TXN_VALUE")
SBI_DATE_DETAILS == Chars("SBI_DATE_DETAILS")

----------------------------------------------------------------------------
(* Metadata extraction, lines 76-89 and 191-202 *)

AmountValue(t) == _parse_amount(t).value

Honorifics == {Chars("Mrs."), Chars("Mr."), Chars("M/s"), Chars("Ms.")}

MetaDefaults ==
    [account_name |-> <<>>, account_number |-> <<>>, period |-> <<>>, opening_balance |-> 0]

ContainsAll(s, kws) == \A kw \in kws : Contains(s, kw)
ContainsAny(s, kws) == \E kw \in kws : Contains(s, kw)
StartsWithAny(s, ps) == \E q \in ps : StartsWith(s, q)

\* lines 85-88: the opening balance a BROUGHT FORWARD / BALANCE B/F line sets
OpeningLine(line) ==
    StartsWithAny(StrUpper(line), {Chars("BROUGHT FORWARD"), Chars("BALANCE B/F")})
\* lines 87-88: the last amount found sets the opening balance
LastAmountOr(found, opening_balance) ==
    IF found # <<>> THEN AmountValue(found[Len(found)].tok) ELSE opening_balance
OpeningBalanceOf(meta, line) ==
    IF OpeningLine(line) THEN LastAmountOr(StrictAmounts(line, 0), meta.opening_balance)
    ELSE meta.opening_balance

\* lines 79-88: the body of the for loop, for one line
MetaStep(meta, line) ==
    [account_name |-> IF StartsWithAny(line, Honorifics) THEN line ELSE meta.account_name,
     account_number |->
        IF Contains(line, Chars("Account No"))
        THEN Strip(AfterLast(line, Chars("Account No"))) ELSE meta.account_number,
     period |->
        IF Contains(line, Chars("Statement From"))
        THEN Strip(StrReplace(AfterLast(line, Chars("Statement From")), Chars(":"), <<>>))
        ELSE meta.period,
     opening_balance |-> OpeningBalanceOf(meta, line)]

\* lines 78-88: for line in lines, over ls[lo..hi]; the range is halved so that
\* the evaluation stays shallow on long documents
RECURSIVE MetaLoop(_, _, _, _)
MetaLoop(meta, ls, lo, hi) ==
    IF lo > hi THEN meta
    ELSE IF lo = hi THEN MetaStep(meta, ls[lo])
    ELSE LET mid == (lo + hi) \div 2
             left == MetaLoop(meta, ls, lo, mid)
         IN  IF left = meta THEN MetaLoop(meta, ls, mid + 1, hi)
             ELSE MetaLoop(left, ls, mid + 1, hi)

ExtractMeta(meta, ls) == MetaLoop(meta, ls, 1, Len(ls))

----------------------------------------------------------------------------
(* _parse_sbi_post_value: segmentation, lines 90-127 *)

PVStart == [header_seen |-> FALSE, in_table |-> FALSE, current |-> None, transactions_raw |-> <<>>]

PVHeaderLine(u) == ContainsAll(u, {Chars("POST DATE"), Chars("VALUE DATE"), Chars("DESCRIPTION")})
PVColumnsLine(u) == ContainsAll(u, {Chars("DEBIT"), Chars("CREDIT"), Chars("BALANCE")})

\* lines 113-124, with the page footers kept as continuation lines
PVTableMatchKeepingFooters(st, line, m) ==
    LET tail == IF m.matched THEN Strip(From(line, m.end)) ELSE <<>>
    IN  IF m.matched
        THEN [st EXCEPT
                !.transactions_raw = IF st.current # None THEN Append(@, st.current) ELSE @,
                !.current = [date |-> m.d1, value_date |-> m.d2,
                             lines |-> IF tail # <<>> THEN <<tail>> ELSE <<>>]]
        ELSE IF st.current # None THEN [st EXCEPT !.current.lines = Append(@, line)]
        ELSE st

\* lines 113-124: a line seen in the table, m being what line 112 matched
PVTableMatch(st, line, m) ==
    LET tail == IF m.matched THEN Strip(From(line, m.end)) ELSE <<>>
    IN  IF m.matched
        THEN [st EXCEPT
                !.transactions_raw = IF st.current # None THEN Append(@, st.current) ELSE @,
                !.current = [date |-> m.d1, value_date |-> m.d2,
                             lines |-> IF tail # <<>> THEN <<tail>> ELSE <<>>]]
        ELSE IF StartsWith(StrLower(line), Chars("page")) THEN st
        ELSE IF st.current # None THEN [st EXCEPT !.current.lines = Append(@, line)]
        ELSE st

\* lines 112-124: a line seen in the table
PVTableLine(st, line) == PVTableMatch(st, line, date_line_pattern(line))

\* lines 102-124, with the table started by the columns line alone
PVSegmentStepWithoutHeader(st, line) ==
    LET u == StrUpper(line)
    IN  IF PVHeaderLine(u) THEN [st EXCEPT !.header_seen = TRUE]
        ELSE IF PVColumnsLine(u) THEN [st EXCEPT !.in_table = TRUE]
        ELSE IF ~st.in_table THEN st
        ELSE PVTableLine(st, line)

\* lines 102-124: the body of the for loop, for one line
PVSegmentStep(st, line) ==
    LET u == StrUpper(line)
    IN  IF PVHeaderLine(u) THEN [st EXCEPT !.header_seen = TRUE]
        ELSE IF st.header_seen /\ PVColumnsLine(u) THEN [st EXCEPT !.in_table = TRUE]
        ELSE IF ~st.in_table THEN st
        ELSE PVTableLine(st, line)

\* line 101: for line in lines, over ls[lo..hi]
RECURSIVE PVSegmentLoop(_, _, _, _)
PVSegmentLoop(st, ls, lo, hi) ==
    IF lo > hi THEN st
    ELSE IF lo = hi THEN PVSegmentStep(st, ls[lo])
    ELSE LET mid == (lo + hi) \div 2
             left == PVSegmentLoop(st, ls, lo, mid)
         IN  IF left = st THEN PVSegmentLoop(st, ls, mid + 1, hi)
             ELSE PVSegmentLoop(left, ls, mid + 1, hi)

\* lines 126-127: the last block is closed at the end of the input
PVClosed(st) ==
    IF st.current # None THEN Append(st.transactions_raw, st.current) ELSE st.transactions_raw

\* lines 101-127: the blocks
PVSegment(ls) == PVClosed(PVSegmentLoop(PVStart, ls, 1, Len(ls)))

----------------------------------------------------------------------------
(* _parse_sbi_post_value: classification, lines 129-180.  The function is   *)
(* written as a chain of operators: each one takes what the preceding       *)
(* lines of the source computed as its parameters and computes the next     *)
(* local variables.  _parse_sbi_txn_value is written the same way.          *)

\* line 152: re.split on "|", "/" and the replacement characters U+FFFD and
\* U+FFFE; the model's alphabet holds "|" and "/" of these
DescDelims == {"|", "/"}

RECURSIVE SplitOnChars(_, _)
SplitOnChars(s, delims) ==
    IF \A k \in DOMAIN s : s[k] \notin delims THEN <<s>>
    ELSE LET k == CHOOSE j \in DOMAIN s : s[j] \in delims /\ \A h \in 1..(j - 1) : s[h] \notin delims
         IN  <<SubSeq(s, 1, k - 1)>> \o SplitOnChars(From(s, k), delims)

NonEmpty(x) == x # <<>>
StripEach(parts) == [k \in DOMAIN parts |-> Strip(parts[k])]

\* line 152: the stripped, non-empty parts
DescParts(desc) == SelectSeq(StripEach(SplitOnChars(desc, DescDelims)), NonEmpty)

\* line 161
PVDebitKeywords ==
    {Chars("WDL"), Chars("UPI/DR"), Chars("IMPS/DR"), Chars("ATM WDL"), Chars("POS/"), Chars("/DR/")}

\* lines 162-165, with the credit assigned whatever the keyword test says
PVMovementBoth(is_debit, amount) ==
    [debit |-> IF is_debit THEN amount ELSE 0, credit |-> amount]

\* lines 162-165: the amount goes to one side
PVMovement(is_debit, amount) ==
    [debit |-> IF is_debit THEN amount ELSE 0, credit |-> IF is_debit THEN 0 ELSE amount]

\* lines 153-159: desc_line1 and desc_line2, from the parts of line 152 and
\* from p, the description split at its first blank
PVDescLines(parts, p) ==
    IF parts # <<>> THEN <<parts[1], Join(Tail(parts), Sp)>>
    ELSE <<IF p # <<>> THEN p[1] ELSE <<>>, IF Len(p) > 1 THEN p[2] ELSE <<>>>>

\* lines 167-180: the transaction of a block
PVRecord(block, dl, move, balance, balance_tok) ==
    [date |-> block.date,
     value_date |-> block.value_date,
     description_line1 |-> dl[1],
     description_line2 |-> dl[2],
     cheque_ref |-> <<>>,
     debit |-> move.debit,
     credit |-> move.credit,
     balance |-> balance,
     orig_debit_text |-> <<>>,
     orig_credit_text |-> <<>>,
     orig_balance_text |-> balance_tok]

\* lines 160-165: the movement of a block with amounts, amt_tok being the
\* transaction amount and dl the two description lines
PVDescribed(block, dl, amt_tok, balance_tok) ==
    PVRecord(block, dl,
             PVMovement(ContainsAny(StrUpper(dl[1] \o Sp \o dl[2]), PVDebitKeywords),
                        AmountValue(amt_tok)),
             AmountValue(balance_tok), balance_tok)

\* lines 151-159: the description, what precedes the transaction amount amt
PVWithAmount(block, desc, amt, balance_tok) ==
    PVDescribed(block, PVDescLines(DescParts(desc), SplitOnce(desc)), amt.tok, balance_tok)

\* lines 139-150: the last amount is the balance, the one before it (the
\* same one if it is alone) the transaction amount
PVWithAmounts(block, merged, amounts) ==
    IF amounts = <<>>
    THEN PVRecord(block, <<<<>>, <<>>>>, [debit |-> 0, credit |-> 0], 0, <<>>)
    ELSE PVWithAmount(block,
                      Strip(Slice(merged, 0, amounts[Max({1, Len(amounts) - 1})].start)),
                      amounts[Max({1, Len(amounts) - 1})],
                      amounts[Len(amounts)].tok)

\* lines 135-138: merged and the amounts found in it
PVMerged(block, merged) == PVWithAmounts(block, merged, StrictAmounts(merged, 0))

\* lines 133-180: one block to one transaction
PVClassify(block) == PVMerged(block, CollapseAndStrip(Join(block.lines, Sp)))

\* lines 76-89 and 182-184: what is returned, with the meta of the metadata loop
PVParsed(meta, transactions_raw) ==
    [meta |-> [account_name |-> meta.account_name,
               account_number |-> meta.account_number,
               period |-> meta.period,
               opening_balance |-> meta.opening_balance,
               bank |-> Chars("SBI"),
               layout |-> SBI_POST_VALUE],
     transactions |-> [k \in DOMAIN transactions_raw |-> PVClassify(transactions_raw[k])]]

\* lines 72-184; the lines are what _extract_all_lines returned
_parse_sbi_post_value(ls) ==
    PVParsed(ExtractMeta(MetaDefaults, _normalize_multiline_dates(ls)),
             PVSegment(_normalize_multiline_dates(ls)))

----------------------------------------------------------------------------
(* _parse_sbi_txn_value: segmentation, lines 204-252 *)

\* line 205: ^\s*(?P<d1>date_frag)\s+(?P<d2>date_frag)\s*(?P<rest>.*)$,
\* once the first date is matched in line[lead:e1]
TxnFirstDate(line, lead, e1) ==
    LET a2 == SecondDateStart(line, e1)
    IN  TwoDates(line, lead, e1, a2, IF a2 = NoMatch THEN NoMatch ELSE date_frag(line, a2))

\* line 205: row_start.match(line)
row_start(line) == TxnFirstDate(line, SpaceRun(line, 0), date_frag(line, SpaceRun(line, 0)))

IsWordChar(c) == IsDigit(c) \/ IsAlpha(c) \/ c = "_"

\* \b at offset a
WordBoundary(s, a) == IsWordChar(CharAt(s, a - 1)) # IsWordChar(CharAt(s, a))

\* \b after a date that ends at e
EndsAtBoundary(line, e) == e # NoMatch /\ WordBoundary(line, e)

\* line 232: ^\s*date_frag\b
permissive(line) == EndsAtBoundary(line, date_frag(line, SpaceRun(line, 0)))

\* line 222, without the test of a leading TOTAL
PrimarySentinelWithoutTotal(line) ==
    LET up == StrUpper(line)
    IN  \/ StartsWith(up, Chars("PAGE NO"))
        \/ Contains(up, Chars("CLOSING BALANCE"))
        \/ Contains(up, Chars("SUMMARY"))

\* line 222: the stop sentinels of the primary strategy
PrimarySentinel(line) ==
    LET up == StrUpper(line)
    IN  \/ StartsWith(up, Chars("PAGE NO"))
        \/ Contains(up, Chars("CLOSING BALANCE"))
        \/ Contains(up, Chars("SUMMARY"))
        \/ StartsWith(up, Chars("TOTAL"))

\* line 245: the stop sentinels of the permissive strategy
FallbackSentinel(line) ==
    LET up == StrUpper(line)
    IN  \/ StartsWith(up, Chars("PAGE NO"))
        \/ Contains(up, Chars("CLOSING BALANCE"))
        \/ Contains(up, Chars("SUMMARY"))

\* lines 218-225: the inner while loop; j (0-based) where it stops, and the text
RECURSIVE PrimaryBlock(_, _, _)
PrimaryBlock(ls, j, block) ==
    IF j < Len(ls) /\ ~row_start(ls[j + 1]).matched /\ ~PrimarySentinel(ls[j + 1])
    THEN PrimaryBlock(ls, j + 1, block \o Sp \o ls[j + 1])
    ELSE [j |-> j, block |-> block]

\* lines 226-227, with the scan going on one line before the line where the
\* block stopped
BlockFoundRescanning(raw, d1, d2, b) ==
    [i |-> b.j - 1, raw |-> Append(raw, [date |-> d1, value_date |-> d2, text |-> Strip(b.block)])]

\* lines 226-227: the block b is recorded and the scan goes on where it stopped
BlockFound(raw, d1, d2, b) ==
    [i |-> b.j, raw |-> Append(raw, [date |-> d1, value_date |-> d2, text |-> Strip(b.block)])]

\* lines 212-229, m being what line 211 matched
PrimaryMatch(ls, i, raw, m) ==
    IF m.matched
    THEN BlockFound(raw, Strip(m.d1), Strip(m.d2), PrimaryBlock(ls, i + 1, Strip(m.rest)))
    ELSE [i |-> i + 1, raw |-> raw]

\* lines 210-229: one iteration of the outer while loop
PrimaryStep(ls, i, raw) == PrimaryMatch(ls, i, raw, row_start(ls[i + 1]))

\* line 209: while i < len(lines), over the indexes lo..hi
RECURSIVE PrimaryLoop(_, _, _, _)
PrimaryLoop(ls, st, lo, hi) ==
    IF lo > hi THEN st
    ELSE IF lo = hi THEN (IF st.i = lo THEN PrimaryStep(ls, st.i, st.raw) ELSE st)
    ELSE LET mid == (lo + hi) \div 2
             left == PrimaryLoop(ls, st, lo, mid)
         IN  IF left = st THEN PrimaryLoop(ls, st, mid + 1, hi)
             ELSE PrimaryLoop(ls, left, mid + 1, hi)

\* s.split()
RECURSIVE WordsFrom(_)
Words(s) == WordsFrom(SplitOnce(s))
\* the words, p being the first of them and what follows it
WordsFrom(p) ==
    IF p = <<>> THEN <<>>
    ELSE IF Len(p) = 1 THEN p
    ELSE <<p[1]>> \o WordsFrom(SplitOnce(p[2]))

\* lines 241-248: the inner while loop of the permissive strategy
RECURSIVE FallbackBlock(_, _, _)
FallbackBlock(ls, j, rest) ==
    IF j < Len(ls) /\ ~permissive(ls[j + 1]) /\ ~FallbackSentinel(ls[j + 1])
    THEN FallbackBlock(ls, j + 1, rest \o Sp \o ls[j + 1])
    ELSE [j |-> j, block |-> rest]

\* lines 237-252, toks being the words of the line
FallbackMatch(ls, i, raw, toks) ==
    IF permissive(ls[i + 1]) /\ Len(toks) >= 2
    THEN BlockFound(raw, toks[1], toks[2],
                    FallbackBlock(ls, i + 1, Join(SubSeq(toks, 3, Len(toks)), Sp)))
    ELSE [i |-> i + 1, raw |-> raw]

\* lines 235-252: one iteration of the outer while loop
FallbackStep(ls, i, raw) == FallbackMatch(ls, i, raw, Words(ls[i + 1]))

\* line 234: while i < len(lines), over the indexes lo..hi
RECURSIVE FallbackLoop(_, _, _, _)
FallbackLoop(ls, st, lo, hi) ==
    IF lo > hi THEN st
    ELSE IF lo = hi THEN (IF st.i = lo THEN FallbackStep(ls, st.i, st.raw) ELSE st)
    ELSE LET mid == (lo + hi) \div 2
             left == FallbackLoop(ls, st, lo, mid)
         IN  IF left = st THEN FallbackLoop(ls, st, mid + 1, hi)
             ELSE FallbackLoop(ls, left, mid + 1, hi)

\* lines 207-208: i and transactions_raw before the scan
TVStart == [i |-> 0, raw |-> <<>>]

\* line 231, with the permissive strategy run in every case
FallbackAlways(transactions_raw) == TRUE

\* line 231: if not transactions_raw
FallbackNeeded(transactions_raw) == transactions_raw = <<>>

\* lines 231-252: the permissive strategy, when the primary one found nothing
TVFallback(ls, primary) ==
    IF FallbackNeeded(primary) THEN FallbackLoop(ls, TVStart, 0, Len(ls) - 1).raw ELSE primary

\* lines 207-252: the primary strategy, and the permissive one when it found nothing
TVSegment(ls) == TVFallback(ls, PrimaryLoop(ls, TVStart, 0, Len(ls) - 1).raw)

----------------------------------------------------------------------------
(* _parse_sbi_txn_value: classification, lines 254-393 *)

\* the pattern P (upper case) at offset a, ignoring case
MatchesAtCI(s, a, P) ==
    a >= 0 /\ a + Len(P) <= Len(s) /\ \A k \in 1..Len(P) : UpperChar(s[a + k]) = P[k]

\* the offsets where a match may start
Offsets(s) == 0..(Len(s) - 1)

\* re.sub: every non-overlapping match, left to right, replaced; end[c] is the
\* offset where a match starting at c ends, or NoMatch, and repl[c] is what
\* replaces it
RegexSub(s, end, repl) ==
    LET starts == {c \in Offsets(s) : end[c] # NoMatch}
        sub[a \in 0..Len(s)] ==
            LET later == {c \in starts : c >= a}
            IN  IF later = {} THEN From(s, a)
                ELSE LET c == Min(later)
                     IN  Slice(s, a, c) \o repl[c] \o sub[end[c]]
    IN  sub[0]

\* line 263: (?i)(UPI\s*DR|UPIDR)
UpiDrEnd(s, a) ==
    LET q == a + 3 + SpaceRun(s, a + 3)
    IN  IF MatchesAtCI(s, a, Chars("UPI")) /\ MatchesAtCI(s, q, Chars("DR")) THEN q + 2 ELSE NoMatch
UpiDrSub(s) ==
    RegexSub(s, [c \in Offsets(s) |-> UpiDrEnd(s, c)], [c \in Offsets(s) |-> Chars("UPI/DR")])

\* line 264: (?i)(UPI\s*CR|UPICR)
UpiCrEnd(s, a) ==
    LET q == a + 3 + SpaceRun(s, a + 3)
    IN  IF MatchesAtCI(s, a, Chars("UPI")) /\ MatchesAtCI(s, q, Chars("CR")) THEN q + 2 ELSE NoMatch
UpiCrSub(s) ==
    RegexSub(s, [c \in Offsets(s) |-> UpiCrEnd(s, c)], [c \in Offsets(s) |-> Chars("UPI/CR")])

\* line 265: (?i)Paym(?:e)?-?TRANSFER
PaymeEnd(s, a) ==
    LET q1 == IF MatchesAtCI(s, a + 4, Chars("E")) THEN a + 5 ELSE a + 4
        q2 == IF CharAt(s, q1) = "-" THEN q1 + 1 ELSE q1
    IN  IF MatchesAtCI(s, a, Chars("PAYM")) /\ MatchesAtCI(s, q2, Chars("TRANSFER"))
        THEN q2 + 8 ELSE NoMatch
PaymeSub(s) ==
    RegexSub(s, [c \in Offsets(s) |-> PaymeEnd(s, c)], [c \in Offsets(s) |-> Chars("Payme TRANSFER")])

\* line 266: (?i)(TRANSFER)(?=UPI/) replaced by the group and a blank
TransferUpiEnd(s, a) ==
    IF MatchesAtCI(s, a, Chars("TRANSFER")) /\ MatchesAtCI(s, a + 8, Chars("UPI/"))
    THEN a + 8 ELSE NoMatch
TransferUpiSub(s) ==
    RegexSub(s, [c \in Offsets(s) |-> TransferUpiEnd(s, c)], [c \in Offsets(s) |-> Slice(s, c, c + 8) \o Sp])

\* line 267: \s*/\s*
SlashEnd(s, a) ==
    LET q == a + SpaceRun(s, a)
    IN  IF CharAt(s, q) = "/" THEN q + 1 + SpaceRun(s, q + 1) ELSE NoMatch
SlashSub(s) ==
    RegexSub(s, [c \in Offsets(s) |-> SlashEnd(s, c)], [c \in Offsets(s) |-> Chars("/")])

\* line 270: \s*\|\s*
PipeEnd(s, a) ==
    LET q == a + SpaceRun(s, a)
    IN  IF CharAt(s, q) = "|" THEN q + 1 + SpaceRun(s, q + 1) ELSE NoMatch
PipeSub(s) ==
    RegexSub(s, [c \in Offsets(s) |-> PipeEnd(s, c)], [c \in Offsets(s) |-> Chars(" | ")])

\* lines 260-270: the block's text as the amounts are searched in it; the
\* replacement characters of line 269 are outside the model's alphabet
Normalized(blocktext) ==
    LET m0 == CollapseAndStrip(blocktext)
        m1 == UpiDrSub(m0)
        m2 == UpiCrSub(m1)
        m3 == PaymeSub(m2)
        m4 == TransferUpiSub(m3)
        m5 == SlashSub(m4)
    IN  PipeSub(m5)

\* (?:\.\d{1,2})? at offset q
FractionEnd(s, q) ==
    IF CharAt(s, q) = "." /\ DigitRun(s, q + 1) >= 1 THEN q + 1 + Min2(2, DigitRun(s, q + 1)) ELSE q

\* line 255, first alternative: \d{1,3}(?:,\d{3})*(?:\.\d{1,2})?(?:CR|DR)?
GroupedAmountEnd(s, a) ==
    LET k == Min2(3, DigitRun(s, a))
    IN  IF k = 0 THEN NoMatch
        ELSE SuffixEnd(s, FractionEnd(s, a + k + 4 * GroupRun(s, a + k)))

\* line 255, second alternative: \d+(?:\.\d{1,2})?(?:CR|DR)?
PlainAmountEnd(s, a) ==
    IF DigitRun(s, a) = 0 THEN NoMatch ELSE SuffixEnd(s, FractionEnd(s, a + DigitRun(s, a)))

\* line 255: amt_re; the second alternative is tried when the first fails
LooseAmountEnd(s, a) ==
    IF GroupedAmountEnd(s, a) # NoMatch THEN GroupedAmountEnd(s, a) ELSE PlainAmountEnd(s, a)

\* line 272: amt_re.finditer(normalized)
RECURSIVE LooseAmounts(_, _)
LooseAmounts(s, a) ==
    IF a >= Len(s) THEN <<>>
    ELSE LET e == LooseAmountEnd(s, a)
         IN  IF e = NoMatch THEN LooseAmounts(s, a + 1)
             ELSE <<[tok |-> Slice(s, a, e), start |-> a, end |-> e]>> \o LooseAmounts(s, e)

\* the last offset where p occurs in s, or NoMatch: s.rfind(p)
RFind(s, p) ==
    LET at == {a \in 0..Len(s) : MatchesAt(s, a, p)}
    IN  IF at = {} THEN NoMatch ELSE Max(at)

\* lines 286-305: when the text before the amount is one token of six or more
\* digits and the amount has three or more integer digits, the amount's first
\* digit is moved to the end of that token; region is normalized[:t_start]
\* and before its words
ShiftBefore(region, before, txn_tok) ==
    LET txn_int_part == Slice(txn_tok, 0, DigitRun(txn_tok, 0))
        idx == RFind(region, before[1])
    IN  IF /\ Len(before) = 1 /\ AllDigits(before[1])
           /\ Len(txn_int_part) >= 3 /\ Len(before[1]) >= 6
           /\ Tail(txn_int_part) # <<>> /\ idx # NoMatch
        THEN [desc_part |-> Slice(region, 0, idx) \o Append(before[1], txn_int_part[1])
                                \o From(region, idx + Len(before[1])),
              txn_tok |-> Tail(txn_int_part) \o From(txn_tok, Len(txn_int_part))]
        ELSE [desc_part |-> Strip(region), txn_tok |-> txn_tok]

\* lines 286-305, for the transaction amount txn found in norm
ShiftDigit(norm, txn) ==
    ShiftBefore(Slice(norm, 0, txn.start), Words(Slice(norm, 0, txn.start)), txn.tok)

\* re.search: the first of the offsets where the pattern matches, or NoMatch
Search(at) == IF at = {} THEN NoMatch ELSE Min(at)

\* (?i)\bTRANSFER\s+(TO|FROM)\b at offset a: where the TO or FROM starts and ends
TransferToFrom(s, a) ==
    LET sp == SpaceRun(s, a + 8)
        w == a + 8 + sp
        e == IF MatchesAtCI(s, w, Chars("TO")) THEN w + 2
             ELSE IF MatchesAtCI(s, w, Chars("FROM")) THEN w + 4 ELSE NoMatch
    IN  IF /\ WordBoundary(s, a) /\ MatchesAtCI(s, a, Chars("TRANSFER")) /\ sp >= 1
           /\ e # NoMatch /\ WordBoundary(s, e)
        THEN [matched |-> TRUE, word |-> StrUpper(Slice(s, w, e)), end |-> e]
        ELSE NoDates

\* [\s:,-]* from offset a on
RECURSIVE PunctRun(_, _)
PunctRun(s, a) ==
    IF a < Len(s) /\ s[a + 1] \in {" ", ":", ",", "-"} THEN 1 + PunctRun(s, a + 1) ELSE 0

\* [\s:,-]*([0-9]{4,}) after the TO or FROM matched as t: the digits, none
\* if the pattern does not match
DigitsFrom(s, d) == IF DigitRun(s, d) >= 4 THEN Slice(s, d, d + DigitRun(s, d)) ELSE <<>>
AccountAfter(s, t) == IF t.matched THEN DigitsFrom(s, t.end + PunctRun(s, t.end)) ELSE <<>>

\* line 311: (?i)\bTRANSFER(?:\s+TO|\s+FROM)\b[\s:,-]*([0-9]{4,}) at offset a
MrefAccount(s, a) == AccountAfter(s, TransferToFrom(s, a))
MrefHere(s, a) == MrefAccount(s, a) # <<>>

\* line 314
TypHere(s, a) == TransferToFrom(s, a).matched

\* line 321: (?i)(TRANSFER).*?([0-9]{6,}) at offset a
SixDigitsHere(s, b) == DigitRun(s, b) >= 6
M2Here(s, a) ==
    /\ MatchesAtCI(s, a, Chars("TRANSFER"))
    /\ Search({b \in (a + 8)..Len(s) : SixDigitsHere(s, b)}) # NoMatch

\* s[a:b] with b clipped to the length, as Python slices
ClipSlice(s, a, b) == Slice(s, a, Min2(b, Len(s)))

\* lines 309-330: the reference and the description without it
\* lines 312-319: mref matched at offset mref, typ at offset typ (or not)
StrictReference(desc_part, mref, typ) ==
    [cheque_ref |->
        (IF typ # NoMatch
         THEN Chars("TRANSFER ") \o TransferToFrom(desc_part, typ).word \o Sp
         ELSE Chars("TRANSFER ")) \o MrefAccount(desc_part, mref),
     desc_main |-> Strip(Slice(desc_part, 0, mref))]

\* lines 323-330: m2 matched at offset m2 and its digits start at acctAt;
\* near is the text from m2 to 30 characters past the digits
LooseReferenceAt(desc_part, m2, acctAt) ==
    LET acctEnd == acctAt + DigitRun(desc_part, acctAt)
        acct == Slice(desc_part, acctAt, acctEnd)
        near == StrUpper(ClipSlice(desc_part, m2, acctEnd + 30))
    IN  [cheque_ref |->
            IF Contains(near, Chars("TO")) THEN Chars("TRANSFER TO ") \o acct
            ELSE IF Contains(near, Chars("FROM")) THEN Chars("TRANSFER FROM ") \o acct
            ELSE Chars("TRANSFER ") \o acct,
         desc_main |-> Strip(Slice(desc_part, 0, m2))]
LooseReference(desc_part, m2) ==
    IF m2 # NoMatch
    THEN LooseReferenceAt(desc_part, m2,
                          Search({b \in (m2 + 8)..Len(desc_part) : SixDigitsHere(desc_part, b)}))
    ELSE [cheque_ref |-> <<>>, desc_main |-> desc_part]

\* lines 311-330, mref being the offset where line 311 matched, or NoMatch
ReferenceFrom(desc_part, mref) ==
    IF mref # NoMatch
    THEN StrictReference(desc_part, mref,
                         Search({b \in 0..Len(desc_part) : TypHere(desc_part, b)}))
    ELSE LooseReference(desc_part, Search({b \in 0..Len(desc_part) : M2Here(desc_part, b)}))

\* lines 309-330: the reference and the description without it
Reference(desc_part) ==
    ReferenceFrom(desc_part, Search({b \in 0..Len(desc_part) : MrefHere(desc_part, b)}))

\* lines 363-364
TVCreditKeywords ==
    {Chars("BY TRANSFER"), Chars("/CR/"), Chars("CR/"), Chars("CREDIT"), Chars("TRANSFER FROM")}
TVDebitKeywords ==
    {Chars("TO TRANSFER"), Chars("TRANSFER TO"), Chars("/DR/"), Chars("DR"), Chars("UPI/DR"),
     Chars("DEBIT"), Chars("WDL"), Chars("ATM WDL")}

\* the tie-break of lines 371-378 without the reference of lines 371-374
MovementWithoutReference(desc_up, cheque_ref) ==
    LET is_credit == ContainsAny(desc_up, TVCreditKeywords)
        is_debit == ContainsAny(desc_up, TVDebitKeywords)
    IN  IF is_credit /\ ~is_debit THEN "credit"
        ELSE IF is_debit /\ ~is_credit THEN "debit"
        ELSE IF Contains(desc_up, Chars("/CR")) \/ Contains(desc_up, Chars("BY TRANSFER")) THEN "credit"
        ELSE "debit"

\* lines 365-378: "credit" or "debit"
Movement(desc_up, cheque_ref) ==
    LET is_credit == ContainsAny(desc_up, TVCreditKeywords)
        is_debit == ContainsAny(desc_up, TVDebitKeywords)
    IN  IF is_credit /\ ~is_debit THEN "credit"
        ELSE IF is_debit /\ ~is_credit THEN "debit"
        ELSE IF cheque_ref # <<>> /\ Contains(cheque_ref, Chars("TRANSFER TO")) THEN "debit"
        ELSE IF cheque_ref # <<>> /\ Contains(cheque_ref, Chars("TRANSFER FROM")) THEN "credit"
        ELSE IF Contains(desc_up, Chars("/CR")) \/ Contains(desc_up, Chars("BY TRANSFER")) THEN "credit"
        ELSE "debit"

\* s.rsplit(" ", 1)[0]: what precedes the last blank (s itself if none)
BeforeLastSpace(s) ==
    LET at == {k \in DOMAIN s : s[k] = " "}
    IN  IF at = {} THEN s ELSE SubSeq(s, 1, Max(at) - 1)

Slash == Chars("/")

\* lines 333-357: the two description lines
DescLines(desc_main) ==
    LET segs == SelectSeq(SplitOnChars(desc_main, {"/"}), NonEmpty)
        half == IF Len(segs) \div 3 > 1 THEN Len(segs) \div 3 ELSE 1
        line1 == Strip(Join(SubSeq(segs, 1, half), Slash))
        line2 == IF half * 2 <= Len(segs)
                 THEN Strip(Join(SubSeq(segs, half + 1, half * 2), Slash))
                 ELSE Strip(Join(SubSeq(segs, half + 1, Len(segs)), Slash))
        rest == IF half * 2 < Len(segs)
                THEN Strip(Join(SubSeq(segs, half * 2 + 1, Len(segs)), Slash)) ELSE <<>>
        first == BeforeLastSpace(ClipSlice(desc_main, 0, 45))
        second == Strip(From(desc_main, Len(first)))
        second_first == IF Len(second) > 45 THEN BeforeLastSpace(ClipSlice(second, 0, 45)) ELSE second
    IN  IF desc_main = <<>> THEN <<<<>>, <<>>>>
        ELSE IF Len(segs) >= 3
        THEN <<line1, Strip(line2 \o (IF rest # <<>> THEN Slash \o rest ELSE <<>>))>>
        ELSE IF Len(desc_main) > 90 THEN <<Strip(first), Strip(second_first)>>
        ELSE IF Len(desc_main) > 45 THEN <<first, second>>
        ELSE <<desc_main, <<>>>>

\* lines 380-393: the transaction of a block; move is "debit", "credit" or
\* "none" and amt_val the value of the transaction amount
TVRecord(block, dl, cheque_ref, move, txn_tok, amt_val, balance, balance_tok) ==
    [date |-> Strip(block.date),
     value_date |-> Strip(block.value_date),
     description_line1 |-> dl[1],
     description_line2 |-> dl[2],
     cheque_ref |-> cheque_ref,
     debit |-> IF move = "debit" THEN amt_val ELSE 0,
     credit |-> IF move = "credit" THEN amt_val ELSE 0,
     balance |-> balance,
     orig_debit_text |-> IF move = "debit" THEN txn_tok ELSE <<>>,
     orig_credit_text |-> IF move = "credit" THEN txn_tok ELSE <<>>,
     orig_balance_text |-> balance_tok]

\* lines 332-378: the description lines and the movement, desc_main being
\* the description of line 332
TVDescribed(block, desc_main, cheque_ref, txn_tok, balance_tok) ==
    TVRecord(block, DescLines(desc_main), cheque_ref,
             IF txn_tok # <<>> THEN Movement(StrUpper(desc_main), cheque_ref) ELSE "none",
             txn_tok, AmountValue(txn_tok),
             IF balance_tok # <<>> THEN AmountValue(balance_tok) ELSE 0, balance_tok)

\* line 332, ref being the reference and the description of lines 309-330
TVReferenced(block, ref, txn_tok, balance_tok) ==
    TVDescribed(block, CollapseAndStrip(ref.desc_main), ref.cheque_ref, txn_tok, balance_tok)

\* lines 309-330, shifted being the description and the amount of lines 286-305
TVShifted(block, shifted, balance_tok) ==
    TVReferenced(block, Reference(shifted.desc_part), shifted.txn_tok, balance_tok)

\* lines 274-307: the last amount is the balance, the one before it (the
\* same one if it is alone) the transaction amount
TVWithAmounts(block, norm, amounts) ==
    TVShifted(block,
              IF amounts = <<>> THEN [desc_part |-> norm, txn_tok |-> <<>>]
              ELSE ShiftDigit(norm, amounts[Max({1, Len(amounts) - 1})]),
              IF amounts = <<>> THEN <<>> ELSE amounts[Len(amounts)].tok)

\* line 272: the amounts found in the normalized text
TVNormalized(block, norm) == TVWithAmounts(block, norm, LooseAmounts(norm, 0))

\* lines 257-393: one block to one transaction
TVClassify(block) == TVNormalized(block, Normalized(block.text))

\* lines 395-398: the opening balance back-filled from the first transaction
BackFill(opening_balance, transactions) ==
    IF opening_balance = 0 /\ transactions # <<>>
    THEN transactions[1].balance + transactions[1].debit - transactions[1].credit
    ELSE opening_balance

\* lines 395-401: what is returned, with the meta of the metadata loop
TVParsed(meta, transactions) ==
    [meta |-> [account_name |-> meta.account_name,
               account_number |-> meta.account_number,
               period |-> meta.period,
               opening_balance |-> BackFill(meta.opening_balance, transactions),
               bank |-> Chars("SBI"),
               layout |-> SBI_TXN_VALUE],
     transactions |-> transactions]

\* lines 257 and 380: a transaction for every block
TVClassified(transactions_raw) ==
    [k \in DOMAIN transactions_raw |-> TVClassify(transactions_raw[k])]

\* lines 187-401; the lines are what _extract_all_lines returned
_parse_sbi_txn_value(ls) ==
    TVParsed(ExtractMeta(MetaDefaults, _normalize_multiline_dates(ls)),
             TVClassified(TVSegment(_normalize_multiline_dates(ls))))

----------------------------------------------------------------------------
(* parse_pdf_to_data, lines 405-434 *)

\* a Python str where the variable may also hold None
Str(chars) == [str |-> chars]

\* truth value of a str-or-None: None and "" are false
Truthy(v) == v # None /\ v.str # <<>>

\* line 412: lines[:120]
SampleLines == 120

\* line 412: " ".join(lines[:120]).upper()
Sample(ls) == StrUpper(Join(SubSeq(ls, 1, Min2(Len(ls), SampleLines)), Sp))

\* lines 413-419, with the branches tried in another order
AutoDetectTxnFirst(sample) ==
    IF ContainsAll(sample, {Chars("TXN DATE"), Chars("VALUE DATE")}) THEN Str(SBI_TXN_VALUE)
    ELSE IF ContainsAll(sample, {Chars("POST DATE"), Chars("VALUE DATE"), Chars("DESCRIPTION")})
    THEN Str(SBI_POST_VALUE)
    ELSE IF ContainsAll(sample, {Chars("TXN DATE"), Chars("DETAILS")}) THEN Str(SBI_DATE_DETAILS)
    ELSE None

\* lines 413-419: auto
AutoDetect(sample) ==
    IF ContainsAll(sample, {Chars("POST DATE"), Chars("VALUE DATE"), Chars("DESCRIPTION")})
    THEN Str(SBI_POST_VALUE)
    ELSE IF ContainsAll(sample, {Chars("TXN DATE"), Chars("VALUE DATE")}) THEN Str(SBI_TXN_VALUE)
    ELSE IF ContainsAll(sample, {Chars("TXN DATE"), Chars("DETAILS")}) THEN Str(SBI_DATE_DETAILS)
    ELSE None

\* line 421: (layout.strip().upper() if layout else None) or auto or SBI_POST_VALUE
UseLayout(hint, auto) ==
    LET given == IF Truthy(hint) THEN Str(StrUpper(Strip(hint.str))) ELSE None
    IN  IF Truthy(given) THEN given.str
        ELSE IF Truthy(auto) THEN auto.str
        ELSE SBI_POST_VALUE

\* lines 428-434, with an unknown layout parsed as the default one
DispatchWithDefault(use_layout, ls) ==
    IF use_layout = SBI_TXN_VALUE THEN Returned(_parse_sbi_txn_value(ls))
    ELSE IF use_layout = SBI_DATE_DETAILS THEN Raised("NameError")
    ELSE Returned(_parse_sbi_post_value(ls))

\* lines 428-434.  No _parse_sbi_date_details is defined in the module, so
\* looking the name up on line 433 raises NameError.
Dispatch(use_layout, ls) ==
    IF use_layout = SBI_POST_VALUE THEN Returned(_parse_sbi_post_value(ls))
    ELSE IF use_layout = SBI_TXN_VALUE THEN Returned(_parse_sbi_txn_value(ls))
    ELSE IF use_layout = SBI_DATE_DETAILS THEN Raised("NameError")
    ELSE Raised("ValueError")

\* lines 405-434; ls is what _extract_all_lines returned
parse_pdf_to_data(ls, hint) ==
    LET norm == _normalize_multiline_dates(ls)
        auto == AutoDetect(Sample(norm))
        use_layout == UseLayout(hint, auto)
    IN  [auto |-> auto, use_layout |-> use_layout, result |-> Dispatch(use_layout, ls)]

----------------------------------------------------------------------------
(* Documents and layout hints handed to parse_pdf_to_data *)

MaxBodyLines == 2

\* amount tokens with two decimals, without and with thousands separators
Plain(n, frac) ==
    [kind |-> "token", int |-> n, frac |-> frac, sep |-> FALSE, suffix |-> "", paren |-> FALSE]
Separated(n, frac) == [Plain(n, frac) EXCEPT !.sep = TRUE]
Frac00 == [txt |-> ".00", h |-> 0]
Frac50 == [txt |-> ".50", h |-> 50]

\* table rows: two dates, a description and the amount tokens that follow it
RowAtm ==
    [d1 |-> Chars("01-04-2024"), d2 |-> Chars("02-04-2024"), desc |-> Chars("ATM WDL"),
     amounts |-> <<Plain(500, Frac00), Plain(4500, Frac00)>>]
RowAtmSeparated ==
    [d1 |-> Chars("01-04-2024"), d2 |-> Chars("02-04-2024"), desc |-> Chars("ATM WDL"),
     amounts |-> <<Plain(200, Frac00), Separated(1000, Frac00)>>]
RowUpiDr ==
    [d1 |-> Chars("03-04-2024"), d2 |-> Chars("03-04-2024"), desc |-> Chars("UPI/DR/123/RAMESH"),
     amounts |-> <<Separated(1234, Frac50), Separated(5734, Frac50)>>]
RowUpiCr ==
    [d1 |-> Chars("04-04-2024"), d2 |-> Chars("04-04-2024"), desc |-> Chars("BY TRANSFER UPI/CR/55"),
     amounts |-> <<Plain(300, Frac00), Plain(800, Frac00)>>]
RowBare ==
    [d1 |-> Chars("05-04-2024"), d2 |-> Chars("05-04-2024"), desc |-> Chars("BY TRANSFER"),
     amounts |-> <<>>]
RowOne ==
    [d1 |-> Chars("06-04-2024"), d2 |-> Chars("06-04-2024"), desc |-> Chars("CASH DEPOSIT"),
     amounts |-> <<Plain(700, Frac00)>>]
Rows == {RowAtm, RowAtmSeparated, RowUpiDr, RowUpiCr, RowBare, RowOne}

\* the anchor line of a row, as the PDF text has it
RowLine(r) ==
    Join(<<r.d1, r.d2, r.desc>> \o [k \in DOMAIN r.amounts |-> TokenText(r.amounts[k])], Sp)

\* lines that are no row: amounts run together, a single date, continuation
\* lines, stop lines and opening-balance lines
OtherLines ==
    {Chars("7 Apr 2024 8 Apr 2024 TO TRANSFER 450.00250.00"),
     Chars("08/04/2024 ATM WDL 50.00 750.00"),
     Chars("25.00 75.00"),
     Chars("Page No 2"),
     Chars("Total 100.00"),
     Chars("Balance B/F 1,000.00"),
     Chars("Brought Forward 0.00")}

BodyLines == {RowLine(r) : r \in Rows} \cup OtherLines
Bodies == SeqsUpTo(BodyLines, MaxBodyLines)

\* what precedes the table
HeadPost == <<Chars("Post Date Value Date Description"), Chars("Debit Credit Balance")>>
HeadTxn == <<Chars("Txn Date Value Date Description Ref No. Debit Credit Balance")>>
HeadDetails == <<Chars("Txn Date Details Debit Credit Balance")>>
HeadPlain == <<Chars("Account Statement")>>
HeadTxnDetails == <<Chars("Txn Date Value Date Details")>>
HeadAll ==
    <<Chars("Txn Date Value Date Details"), Chars("Post Date Value Date Description"),
      Chars("Debit Credit Balance")>>
Heads == {HeadPost, HeadTxn, HeadDetails, HeadPlain, HeadTxnDetails, HeadAll}

\* cover pages before the head: none, or enough lines to push the head to the
\* end of the sampled lines or past it; the last one is shortened by
\* _normalize_multiline_dates
Filler == Chars("SBI")
Fill(n) == [k \in 1..n |-> Filler]
Covers ==
    {<<>>, Fill(SampleLines - 1), Fill(SampleLines),
     Fill(SampleLines - 2) \o <<Chars("12 Jan"), Chars("2024")>>}

Hints ==
    {None, Str(<<>>), Str(Chars("  ")), Str(Chars("SBI_POST_VALUE")), Str(Chars(" sbi_txn_value ")),
     Str(Chars("Sbi_Date_Details")), Str(Chars("SBI_OTHER"))}

\* the tables parsed by the layout their head announces
TableDocuments == {h \o b : h \in {HeadPost, HeadTxn}, b \in Bodies}
\* the documents that exercise the choice of the layout
CoverDocuments == {c \o h \o b : c \in Covers, h \in Heads, b \in {<<>>, <<RowLine(RowAtm)>>}}

InitParse ==
    /\ \/ lines \in TableDocuments /\ layout = None
       \/ lines \in CoverDocuments /\ layout \in Hints
    /\ parsed = NoParse
    /\ normalized = <<>> /\ renormalized = <<>>
    /\ AmountIdle /\ RenderIdle
    /\ ScanIdle
    /\ pc = "uploaded"

\* parse_pdf_to_data(file_obj, layout)
ParsePdfToData ==
    /\ pc = "uploaded"
    /\ normalized' = _normalize_multiline_dates(lines)
    /\ parsed' = parse_pdf_to_data(lines, layout)
    /\ pc' = "parsed"
    /\ UNCHANGED <<scanVars, amtVars, lines, renormalized, layout, renderVars>>

NextParse == ParsePdfToData

SpecParse == InitParse /\ [][NextParse]_vars

----------------------------------------------------------------------------
(* Claims about parse_pdf_to_data and the two parsers *)

Recognized == {SBI_POST_VALUE, SBI_TXN_VALUE, SBI_DATE_DETAILS}

\* the statement parse_pdf_to_data returned
Statement == parsed.result.value
ParsedOK == pc = "parsed" /\ parsed.result.exc = "none"

\* C2: in the PostValue table, a row "D1 D2 <description with a debit
\* keyword> A B", A and B amounts with two decimals, with or without
\* thousands separators, gives exactly one transaction with date D1, value
\* date D2, debit value(A), credit 0 and balance value(B).
C2_DebitRows == {RowAtm, RowAtmSeparated, RowUpiDr}
C2_DebitRow ==
    \A r \in C2_DebitRows :
        (pc = "parsed" /\ layout = None /\ lines = HeadPost \o <<RowLine(r)>>) =>
            /\ parsed.result.exc = "none"
            /\ Len(Statement.transactions) = 1
            /\ Statement.transactions[1].date = r.d1
            /\ Statement.transactions[1].value_date = r.d2
            /\ Statement.transactions[1].debit = TokenValue(r.amounts[1])
            /\ Statement.transactions[1].credit = 0
            /\ Statement.transactions[1].balance = TokenValue(r.amounts[2])

\* some opening-balance line of the normalized document carries a non-zero amount
OpeningBalanceGiven ==
    \E k \in DOMAIN normalized :
        /\ OpeningLine(normalized[k])
        /\ \E m \in DOMAIN StrictAmounts(normalized[k], 0) :
               AmountValue(StrictAmounts(normalized[k], 0)[m].tok) # 0

\* C3: after parsing, in any layout, when no opening-balance line set a
\* non-zero opening balance, meta.opening_balance is first.balance +
\* first.debit - first.credit if there is a transaction, and 0 if there is none.
C3_OpeningBackFilled ==
    (ParsedOK /\ ~OpeningBalanceGiven) =>
        Statement.meta.opening_balance =
            IF Statement.transactions # <<>>
            THEN Statement.transactions[1].balance + Statement.transactions[1].debit
                    - Statement.transactions[1].credit
            ELSE 0

\* the rules of the auto-detection, in their order
C7_Rules ==
    <<[all |-> {Chars("POST DATE"), Chars("VALUE DATE"), Chars("DESCRIPTION")}, layout |-> SBI_POST_VALUE],
      [all |-> {Chars("TXN DATE"), Chars("VALUE DATE")}, layout |-> SBI_TXN_VALUE],
      [all |-> {Chars("TXN DATE"), Chars("DETAILS")}, layout |-> SBI_DATE_DETAILS]>>

\* the first 120 normalized lines, joined and upper-cased
C7_Sampled == StrUpper(Join(SubSeq(normalized, 1, Min2(Len(normalized), 120)), Sp))

\* the rules that match the sampled lines
C7_Matching == {k \in DOMAIN C7_Rules : \A kw \in C7_Rules[k].all : Contains(C7_Sampled, kw)}

\* a hint is given when it names something once trimmed
C7_HintGiven == layout # None /\ Strip(layout.str) # <<>>

\* C7: the layout used is the caller's hint (trimmed, upper-cased) if given,
\* else the auto-detected layout, else PostValue; the auto-detected layout is
\* that of the first rule, in the order PostValue, TxnValue, DateDetails,
\* whose keywords all occur in the first 120 normalized lines, none if no
\* rule matches.
C7_LayoutChoice ==
    pc = "parsed" =>
        /\ parsed.auto = IF C7_Matching = {} THEN None ELSE Str(C7_Rules[Min(C7_Matching)].layout)
        /\ parsed.use_layout =
              IF C7_HintGiven THEN StrUpper(Strip(layout.str))
              ELSE IF C7_Matching # {} THEN C7_Rules[Min(C7_Matching)].layout
              ELSE SBI_POST_VALUE

\* no hint; the head matching all three rules starts on line 120 of the
\* normalized document (line 121 of the raw one), so only its first line is
\* sampled and the second rule decides
C7_Witness ==
    /\ pc = "parsed"
    /\ layout = None
    /\ lines = Fill(SampleLines - 2) \o <<Chars("12 Jan"), Chars("2024")>> \o HeadAll
    /\ Len(normalized) = Len(lines) - 1
    /\ C7_Matching = {2, 3}
    /\ parsed.use_layout = SBI_TXN_VALUE

\* C8: for each recognized layout, chosen by hint or by auto-detection,
\* parse_pdf_to_data returns a statement whose meta.layout is that layout;
\* no recognized layout ends in an error.
C8_RecognizedParses ==
    (pc = "parsed" /\ parsed.use_layout \in Recognized) =>
        /\ parsed.result.exc = "none"
        /\ Statement.meta.layout = parsed.use_layout

\* C9: when the final layout is not a recognized one, parsing fails with the
\* unsupported-layout error and returns no statement; it does not fall back
\* to the auto-detected or the default layout.
C9_UnsupportedLayout ==
    (pc = "parsed" /\ C7_HintGiven /\ StrUpper(Strip(layout.str)) \notin Recognized) =>
        parsed.result = Raised("ValueError")

\* an unknown hint on a document whose head announces TxnValue
C9_Witness ==
    /\ pc = "parsed"
    /\ layout = Str(Chars("SBI_OTHER"))
    /\ lines = HeadTxn \o <<RowLine(RowAtm)>>
    /\ parsed.auto = Str(SBI_TXN_VALUE)
    /\ parsed.result = Raised("ValueError")

\* C10: every transaction the parser produced, in the PostValue or the
\* TxnValue layout, has debit >= 0, credit >= 0 and at most one of the two
\* non-zero.
C10_OneMovement ==
    ParsedOK =>
        \A k \in DOMAIN Statement.transactions :
            /\ Statement.transactions[k].debit >= 0
            /\ Statement.transactions[k].credit >= 0
            /\ Statement.transactions[k].debit = 0 \/ Statement.transactions[k].credit = 0

\* a PostValue table with a block without amounts and a credited block with one
C10_Witness ==
    /\ ParsedOK
    /\ parsed.use_layout = SBI_POST_VALUE
    /\ lines = HeadPost \o <<RowLine(RowBare), RowLine(RowOne)>>
    /\ Len(Statement.transactions) = 2
    /\ Statement.transactions[1].debit = 0 /\ Statement.transactions[1].credit = 0
    /\ Statement.transactions[2].debit = 0 /\ Statement.transactions[2].credit = Dec(700, 0)

\* the document is a TxnValue head and rows, each line a row of its own
C20_RowsOnly ==
    /\ SubSeq(lines, 1, Len(HeadTxn)) = HeadTxn
    /\ \A k \in (Len(HeadTxn) + 1)..Len(lines) : \E r \in Rows : lines[k] = RowLine(r)

\* the transaction of a row whose text is the description and then the
\* amount tokens A and B: what the description before A gives, with A as the
\* transaction amount and B as the balance
C20_Expected(r, A, B) ==
    TVReferenced([date |-> r.d1, value_date |-> r.d2,
                  text |-> Join(<<r.desc, TokenText(A), TokenText(B)>>, Sp)],
                 Reference(Strip(Normalized(r.desc))), TokenText(A), TokenText(B))

\* C20: in the TxnValue layout, a row whose text ends with the amount tokens
\* A then B gives balance value(B), debit + credit value(A) and the
\* description and reference of the text before A; a row with the single
\* amount token T gives balance value(T) and debit + credit value(T).
C20_LastTwoAmounts ==
    (ParsedOK /\ parsed.use_layout = SBI_TXN_VALUE /\ C20_RowsOnly) =>
        /\ Len(Statement.transactions) = Len(lines) - Len(HeadTxn)
        /\ \A k \in DOMAIN Statement.transactions : \A r \in Rows :
               lines[Len(HeadTxn) + k] = RowLine(r) =>
                   /\ Len(r.amounts) = 2 =>
                          /\ Statement.transactions[k].balance = TokenValue(r.amounts[2])
                          /\ Statement.transactions[k].debit + Statement.transactions[k].credit
                                 = TokenValue(r.amounts[1])
                          /\ Statement.transactions[k]
                                 = C20_Expected(r, r.amounts[1], r.amounts[2])
                   /\ Len(r.amounts) = 1 =>
                          /\ Statement.transactions[k].balance = TokenValue(r.amounts[1])
                          /\ Statement.transactions[k].debit + Statement.transactions[k].credit
                                 = TokenValue(r.amounts[1])

----------------------------------------------------------------------------
(* generate_pdf_from_data, lines 477-776: the story of flowables.  The cells  *)
(* of a row are modelled by their text, the description cell by the text of   *)
(* its three sub-lines; the table styles are left out.                        *)

\* line 484: the height of an A4 page, in tenths of a millimetre
A4Height == 2970

\* line 482: layout
LayoutOf(statement_obj) ==
    IF Truthy(statement_obj.layout) THEN statement_obj.layout.str
    ELSE IF Truthy(statement_obj.data.meta.layout) THEN statement_obj.data.meta.layout.str
    ELSE SBI_POST_VALUE

\* lines 488-501, in tenths of a millimetre
top_margin(lay) == IF lay = SBI_TXN_VALUE THEN 100 ELSE 50
bottom_margin(lay) == IF lay = SBI_TXN_VALUE THEN 120 ELSE 80
ROW_HEIGHT(lay) == IF lay = SBI_TXN_VALUE THEN 145 ELSE 107

\* lines 566-572
ROWS_PER_PAGE(lay) ==
    LET usable_height == A4Height - top_margin(lay) - bottom_margin(lay)
        fit == (usable_height - ROW_HEIGHT(lay) * 2) \div ROW_HEIGHT(lay)
    IN  IF lay = SBI_TXN_VALUE THEN Max({6, fit}) ELSE Max({8, fit})

\* f"{v:,.2f}": sign, grouped integer part, two decimals (rounded to the cent)
FormatMoney(v) ==
    LET mag == IF v < 0 THEN 0 - v ELSE v
        cents == (mag + Scale \div 200) \div (Scale \div 100)
        frac == cents % 100
    IN  (IF v < 0 THEN <<"-">> ELSE <<>>)
        \o Grouped(DigitsOf(cents \div 100))
        \o <<".", DigitChars[(frac \div 10) + 1], DigitChars[(frac % 10) + 1]>>

\* the suffix of the balances, lines 583 and 683
BalanceSuffix(lay) == IF lay = SBI_POST_VALUE THEN Chars("CR") ELSE <<>>

\* lines 618-621, with the row's own balance field taken as the running balance
RunningFromPrinted(opening_balance, txns, k) ==
    IF k = 0 THEN opening_balance ELSE txns[k].balance

\* lines 574-575 and 618-621: running_balance_global after the first k rows
RECURSIVE running_balance_global(_, _, _)
running_balance_global(opening_balance, txns, k) ==
    IF k = 0 THEN opening_balance
    ELSE running_balance_global(opening_balance, txns, k - 1) - txns[k].debit + txns[k].credit

----------------------------------------------------------------------------
(* The description cell: _make_three_line_cells, lines 438-473, and lines  *)
(* 623-661 of generate_pdf_from_data.  The model's alphabet holds no       *)
(* U+00A0, which line 442 replaces by a blank.                             *)

\* line 439 and line 629: the number of sub-lines and the width of one
max_lines == 3
approx_chars == 32

\* line 443: the stripped, non-empty segments between the slashes
CellSegs(s) == SelectSeq(StripEach(SplitOnChars(s, {"/"})), NonEmpty)

\* lines 445-452: max_lines or more segments, `per` of them on each of the
\* first sub-lines and the rest on the last
SegmentLines(segs, per) ==
    [i \in 1..max_lines |->
        IF i < max_lines THEN Join(SubSeq(segs, (i - 1) * per + 1, i * per), Slash)
        ELSE Join(SubSeq(segs, (i - 1) * per + 1, Len(segs)), Slash)]

\* lines 456-465: the for loop over the words from the k-th on; when the
\* third sub-line is appended the loop is left and cur is not used again
RECURSIVE WrapWords(_, _, _, _)
WrapWords(words, k, cur, out) ==
    IF k > Len(words) THEN [cur |-> cur, lines |-> out]
    ELSE IF Len(cur) + 1 + Len(words[k]) <= approx_chars \/ cur = <<>>
         THEN WrapWords(words, k + 1, Strip(cur \o Sp \o words[k]), out)
    ELSE IF Len(out) + 1 >= max_lines THEN [cur |-> <<>>, lines |-> Append(out, cur)]
    ELSE WrapWords(words, k + 1, words[k], Append(out, cur))

\* lines 466-472: the last sub-line, the padding and the cut
Padded(w) ==
    LET all == IF w.cur # <<>> /\ Len(w.lines) < max_lines THEN Append(w.lines, w.cur) ELSE w.lines
    IN  [i \in 1..max_lines |-> IF i <= Len(all) THEN all[i] ELSE <<>>]

\* lines 453-455: fewer segments than sub-lines, the words wrapped
WordLines(s, segs) ==
    Padded(WrapWords(Words(IF segs # <<>> THEN Join(segs, Chars(" / ")) ELSE s), 1, <<>>, <<>>))

\* lines 442-473, s being the stripped text
ThreeLines(s, segs) ==
    IF Len(segs) >= max_lines THEN SegmentLines(segs, Max({1, Len(segs) \div max_lines}))
    ELSE WordLines(s, segs)

\* _make_three_line_cells(text, max_lines=3, approx_chars=32)
_make_three_line_cells(txt) ==
    IF txt = <<>> THEN [i \in 1..max_lines |-> <<>>]
    ELSE ThreeLines(Strip(txt), CellSegs(Strip(txt)))

\* lines 623-628: desc_full
DescFull(txn) ==
    IF txn.description_line2 # <<>>
    THEN IF Strip(txn.description_line1) # <<>>
         THEN Strip(txn.description_line1) \o Chars(" / ") \o Strip(txn.description_line2)
         ELSE Strip(txn.description_line2)
    ELSE Strip(txn.description_line1)

\* line 649: re.search(r"\bUPI\b", full_text, flags=re.IGNORECASE)
UpiAt(full_text) ==
    Search({a \in Offsets(full_text) :
               /\ MatchesAtCI(full_text, a, Chars("UPI"))
               /\ WordBoundary(full_text, a)
               /\ WordBoundary(full_text, a + 3)})

\* lines 650-653: lines3 when the search matched at m
UpiForced(full_text, lines3, m) ==
    IF m = NoMatch THEN lines3
    ELSE <<Strip(Slice(full_text, 0, m)), Strip(From(full_text, m)), <<>>>>

\* lines 648-653, and 639 for the layout
UpiRule(lay, lines3, full_text) ==
    IF lay = SBI_POST_VALUE THEN UpiForced(full_text, lines3, UpiAt(full_text)) ELSE lines3

\* lines 629-661, lines3 being what _make_three_line_cells returned
DescRows(lay, lines3) == UpiRule(lay, lines3, Strip(Join(lines3, Sp)))

\* lines 623-661, with the rule of lines 648-653 applied in every layout
DescriptionCellUpiEverywhere(lay, txn) ==
    DescRows(SBI_POST_VALUE, _make_three_line_cells(DescFull(txn)))

\* lines 623-661: the three sub-lines of the description cell
DescriptionCell(lay, txn) == DescRows(lay, _make_three_line_cells(DescFull(txn)))

\* lines 617-698, with the credit cell filled from the debit
BodyRowCreditFromDebit(lay, opening_balance, txns, k) ==
    [date |-> txns[k].date,
     value_date |-> txns[k].value_date,
     description |-> DescriptionCell(lay, txns[k]),
     cheque_ref |-> txns[k].cheque_ref,
     debit |-> IF txns[k].debit # 0 THEN FormatMoney(txns[k].debit) ELSE <<>>,
     credit |-> IF txns[k].debit # 0 THEN FormatMoney(txns[k].debit) ELSE <<>>,
     balance |-> FormatMoney(running_balance_global(opening_balance, txns, k)) \o BalanceSuffix(lay)]

\* lines 617-698: the row of the k-th transaction
BodyRow(lay, opening_balance, txns, k) ==
    [date |-> txns[k].date,
     value_date |-> txns[k].value_date,
     description |-> DescriptionCell(lay, txns[k]),
     cheque_ref |-> txns[k].cheque_ref,
     debit |-> IF txns[k].debit # 0 THEN FormatMoney(txns[k].debit) ELSE <<>>,
     credit |-> IF txns[k].credit # 0 THEN FormatMoney(txns[k].credit) ELSE <<>>,
     balance |-> FormatMoney(running_balance_global(opening_balance, txns, k)) \o BalanceSuffix(lay)]

\* lines 597-601 and 608-615: the header row
HeaderRow(lay) ==
    <<IF lay = SBI_TXN_VALUE THEN Chars("Txn Date") ELSE Chars("Post Date"),
      Chars("Value Date"), Chars("Description"),
      IF lay = SBI_TXN_VALUE THEN Chars("Ref No./Cheque No.") ELSE Chars("Cheque<br/>No/Reference"),
      Chars("Debit"), Chars("Credit"), Chars("Balance")>>

\* lines 604-760, with the chunk txns[start : start + ROWS_PER_PAGE + 1]
ChunkTableOneMore(lay, opening_balance, txns, start) ==
    [kind |-> "Table",
     header |-> HeaderRow(lay),
     rows |-> [j \in 1..Min2(ROWS_PER_PAGE(lay) + 1, Len(txns) - start) |->
                  BodyRow(lay, opening_balance, txns, start + j)],
     footer |-> lay = SBI_POST_VALUE]

\* lines 604-760: the table of the chunk txns[start : start + ROWS_PER_PAGE]
ChunkTable(lay, opening_balance, txns, start) ==
    [kind |-> "Table",
     header |-> HeaderRow(lay),
     rows |-> [j \in 1..Min2(ROWS_PER_PAGE(lay), Len(txns) - start) |->
                  BodyRow(lay, opening_balance, txns, start + j)],
     footer |-> lay = SBI_POST_VALUE]

PageBreak == [kind |-> "PageBreak"]

\* lines 603-763: for start in range(0, len(txns), ROWS_PER_PAGE)
RECURSIVE Chunks(_, _, _, _)
Chunks(lay, opening_balance, txns, start) ==
    IF start >= Len(txns) THEN <<>>
    ELSE <<ChunkTable(lay, opening_balance, txns, start)>>
         \o (IF start + ROWS_PER_PAGE(lay) < Len(txns) THEN <<PageBreak>> ELSE <<>>)
         \o Chunks(lay, opening_balance, txns, start + ROWS_PER_PAGE(lay))

\* lines 577-595: the table above the transactions
MetaTable(lay, meta) ==
    IF meta.account_name # <<>> \/ meta.account_number # <<>> \/ meta.period # <<>>
    THEN <<[kind |-> "MetaTable",
            name |-> meta.account_name,
            opening |-> Chars("Opening Balance: ") \o FormatMoney(meta.opening_balance)
                            \o BalanceSuffix(lay),
            number |-> Chars("Account No: ") \o meta.account_number,
            period |-> Chars("Period: ") \o meta.period]>>
    ELSE <<>>

\* lines 477-776: the story handed to doc.build
generate_pdf_from_data(statement_obj) ==
    LET meta == statement_obj.data.meta
        txns == statement_obj.data.transactions
        lay == LayoutOf(statement_obj)
    IN  MetaTable(lay, meta) \o Chunks(lay, meta.opening_balance, txns, 0)

----------------------------------------------------------------------------
(* Stored statements handed to generate_pdf_from_data *)

MaxTxns == 25

\* transactions as a statement's data holds them; the balance field is the
\* printed balance the parser read, which need not follow from the amounts
TxnWithdrawal ==
    [date |-> Chars("01-04-2024"), value_date |-> Chars("02-04-2024"),
     description_line1 |-> Chars("ATM WDL"), description_line2 |-> <<>>, cheque_ref |-> <<>>,
     debit |-> Dec(200, 0), credit |-> 0, balance |-> Dec(4500, 0)]
TxnDeposit ==
    [date |-> Chars("03-04-2024"), value_date |-> Chars("03-04-2024"),
     description_line1 |-> Chars("BY TRANSFER"), description_line2 |-> Chars("UPI/CR/55"),
     cheque_ref |-> Chars("TRANSFER FROM 55"),
     debit |-> 0, credit |-> Dec(1234, 50), balance |-> Dec(1234, 50)]
TxnEdited ==
    [date |-> Chars("04-04-2024"), value_date |-> Chars("04-04-2024"),
     description_line1 |-> Chars("CHARGES"), description_line2 |-> <<>>, cheque_ref |-> <<>>,
     debit |-> Dec(10, 0), credit |-> Dec(5, 0), balance |-> 0]

TxnKinds == {TxnWithdrawal, TxnDeposit, TxnEdited}

\* n transactions that repeat a pattern of one or two kinds
Repeated(pattern, n) == [k \in 1..n |-> pattern[((k - 1) % Len(pattern)) + 1]]
TxnLists == {Repeated(q, n) : q \in SeqsUpTo(TxnKinds, 2) \ {<<>>}, n \in 0..MaxTxns}

\* Statement.layout and meta["layout"]
LayoutPairs ==
    {<<Str(SBI_POST_VALUE), Str(SBI_POST_VALUE)>>, <<Str(SBI_TXN_VALUE), Str(SBI_TXN_VALUE)>>,
     <<Str(<<>>), Str(SBI_TXN_VALUE)>>, <<Str(<<>>), None>>}

\* statements of many rows, for the pages and the running balance
PagedStatements ==
    {[layout |-> lp[1],
      data |-> [meta |-> [account_name |-> name, account_number |-> <<>>, period |-> <<>>,
                          opening_balance |-> ob, bank |-> Chars("SBI"), layout |-> lp[2]],
                transactions |-> txns]] :
        lp \in LayoutPairs, name \in {<<>>, Chars("Mr. A Kumar")},
        ob \in {0, Dec(1000, 0)}, txns \in TxnLists}

\* first description lines: segments between slashes with UPI in the first
\* and in the last of them, no UPI, UPI past the width of one sub-line, in
\* lower case, inside a longer word, and past the third sub-line
DescLine1s ==
    {Chars("UPI/DR/123/RAMESH"), Chars("NEFT/HDFC/UPI"), Chars("ATM WDL"), Chars("  BY TRANSFER "),
     Chars("PAYMENT TO RAMESH KUMAR STORES VIA UPI COLLECT"), Chars("paid by upi lite"),
     Chars("SUPERUPI CHARGES"),
     Chars("STANDING INSTRUCTION FOR THE RECURRING DEPOSIT ACCOUNT OF THE ACCOUNT HOLDER WITH THE HOME BRANCH BY UPI")}

\* second description lines
DescLine2s == {<<>>, Chars("UPI/CR/55"), Chars("REF 77")}

\* layouts the renderer is handed: the two it lays out and another one
DescLayouts == {Str(SBI_POST_VALUE), Str(SBI_TXN_VALUE), Str(SBI_DATE_DETAILS)}

\* statements of one row, for the description cell
DescribedStatements ==
    {[layout |-> lay,
      data |-> [meta |-> [account_name |-> <<>>, account_number |-> <<>>, period |-> <<>>,
                          opening_balance |-> 0, bank |-> Chars("SBI"), layout |-> lay],
                transactions |-> <<[TxnWithdrawal EXCEPT !.description_line1 = l1,
                                                          !.description_line2 = l2]>>]] :
        lay \in DescLayouts, l1 \in DescLine1s \cup {<<>>}, l2 \in DescLine2s}

Statements == PagedStatements \cup DescribedStatements

InitRender ==
    /\ stmt \in Statements
    /\ story = <<>>
    /\ lines = <<>>
    /\ AmountIdle /\ NormalizeIdle /\ ParseIdle
    /\ ScanIdle
    /\ pc = "stored"

\* generate_pdf_from_data(stmt)
GeneratePdf ==
    /\ pc = "stored"
    /\ story' = generate_pdf_from_data(stmt)
    /\ pc' = "rendered"
    /\ UNCHANGED <<scanVars, amtVars, lines, normVars, parseVars, stmt>>

NextRender == GeneratePdf

SpecRender == InitRender /\ [][NextRender]_vars

\* the body rows of the story, in the order of the pages
RECURSIVE RowsOf(_)
RowsOf(flowables) ==
    IF flowables = <<>> THEN <<>>
    ELSE (IF flowables[1].kind = "Table" THEN flowables[1].rows ELSE <<>>) \o RowsOf(Tail(flowables))

\* the credits and the debits of the first k transactions
RECURSIVE CreditsUpTo(_, _)
CreditsUpTo(txns, k) == IF k = 0 THEN 0 ELSE CreditsUpTo(txns, k - 1) + txns[k].credit
RECURSIVE DebitsUpTo(_, _)
DebitsUpTo(txns, k) == IF k = 0 THEN 0 ELSE DebitsUpTo(txns, k - 1) + txns[k].debit

\* C1: for a statement with opening balance B and transactions t_1..t_n, the
\* balance shown on row i is B + sum over k <= i of (credit_k - debit_k), for
\* every i in 1..n: the running total is carried across the page boundaries
\* and is not the row's own printed balance.
C1_RunningBalance ==
    pc = "rendered" =>
        /\ Len(RowsOf(story)) = Len(stmt.data.transactions)
        /\ \A i \in DOMAIN stmt.data.transactions :
               AmountValue(RowsOf(story)[i].balance) =
                   stmt.data.meta.opening_balance
                       + CreditsUpTo(stmt.data.transactions, i)
                       - DebitsUpTo(stmt.data.transactions, i)

\* seventeen TxnValue rows: the seventeenth is the first row of the second
\* page and shows 1000.00 - 9 * 200.00 + 8 * 1234.50 = 9076.00
C1_Witness ==
    /\ pc = "rendered"
    /\ stmt.layout = Str(SBI_TXN_VALUE)
    /\ stmt.data.meta.opening_balance = Dec(1000, 0)
    /\ stmt.data.meta.account_name = <<>>
    /\ stmt.data.transactions = Repeated(<<TxnWithdrawal, TxnDeposit>>, 17)
    /\ Len(story) = 3
    /\ Len(story[1].rows) = 16
    /\ story[2] = PageBreak
    /\ story[3].rows[1].balance = Chars("9,076.00")

\* C12 as the claim states it: as many body rows as transactions, and on
\* every row the debit, the credit and the balance of its transaction.
C12_FiguresUnchanged ==
    pc = "rendered" =>
        /\ Len(RowsOf(story)) = Len(stmt.data.transactions)
        /\ \A i \in DOMAIN stmt.data.transactions :
               /\ AmountValue(RowsOf(story)[i].debit) = stmt.data.transactions[i].debit
               /\ AmountValue(RowsOf(story)[i].credit) = stmt.data.transactions[i].credit
               /\ AmountValue(RowsOf(story)[i].balance) = stmt.data.transactions[i].balance

\* C12, amended: as many body rows as transactions, and on every row the
\* debit and the credit of its transaction (an amount of zero as an empty
\* cell); the balance of the transaction is on the row when it is the opening
\* balance plus the credits less the debits up to the row, otherwise the row
\* shows that running total and not the transaction's balance.
C12_MovementsUnchanged ==
    pc = "rendered" =>
        /\ Len(RowsOf(story)) = Len(stmt.data.transactions)
        /\ \A i \in DOMAIN stmt.data.transactions :
               /\ AmountValue(RowsOf(story)[i].debit) = stmt.data.transactions[i].debit
               /\ AmountValue(RowsOf(story)[i].credit) = stmt.data.transactions[i].credit
               /\ (RowsOf(story)[i].debit = <<>>) = (stmt.data.transactions[i].debit = 0)
               /\ (RowsOf(story)[i].credit = <<>>) = (stmt.data.transactions[i].credit = 0)
               /\ (AmountValue(RowsOf(story)[i].balance) = stmt.data.transactions[i].balance)
                      = (stmt.data.transactions[i].balance =
                            stmt.data.meta.opening_balance
                                + CreditsUpTo(stmt.data.transactions, i)
                                - DebitsUpTo(stmt.data.transactions, i))

\* a deposit whose balance is the running total, then a withdrawal whose
\* balance of 4500.00 is not: the second row shows 1,034.50
C12_Witness ==
    /\ pc = "rendered"
    /\ stmt.layout = Str(SBI_POST_VALUE)
    /\ stmt.data.meta.opening_balance = 0
    /\ stmt.data.transactions = <<TxnDeposit, TxnWithdrawal>>
    /\ RowsOf(story)[1].credit = Chars("1,234.50") /\ RowsOf(story)[1].debit = <<>>
    /\ RowsOf(story)[1].balance = Chars("1,234.50CR")
    /\ RowsOf(story)[2].debit = Chars("200.00")
    /\ RowsOf(story)[2].balance = Chars("1,034.50CR")


\* the number of flowables before the first table of the story
C22_Offset == IF story # <<>> /\ story[1].kind = "MetaTable" THEN 1 ELSE 0

\* the number of blocks of n transactions with the row budget R
C22_Blocks(n, R) == (n + R - 1) \div R

\* the k-th block of the story (k from 0) is a table with the header row and
\* the transactions k*R .. min((k+1)*R, n)-1 as its body rows, in that order
C22_Block(txns, R, k) ==
    /\ story[C22_Offset + 2 * k + 1].kind = "Table"
    /\ story[C22_Offset + 2 * k + 1].header = HeaderRow(LayoutOf(stmt))
    /\ Len(story[C22_Offset + 2 * k + 1].rows) = Min2((k + 1) * R, Len(txns)) - k * R
    /\ Len(story[C22_Offset + 2 * k + 1].rows) <= R
    /\ \A j \in DOMAIN story[C22_Offset + 2 * k + 1].rows :
           story[C22_Offset + 2 * k + 1].rows[j] =
               BodyRow(LayoutOf(stmt), stmt.data.meta.opening_balance, txns, k * R + j)

\* C22: for n >= 1 transactions and the row budget R = ROWS_PER_PAGE the
\* story holds ceil(n/R) tables; table k is the header row and then the
\* transactions k*R .. min((k+1)*R, n)-1 in input order, at most R of them,
\* so that every transaction is in exactly one table exactly once; a page
\* break follows every table but the last, and nothing follows the last.
C22_PagedBlocks ==
    (pc = "rendered" /\ stmt.data.transactions # <<>>) =>
        /\ Len(story) =
               C22_Offset
                   + 2 * C22_Blocks(Len(stmt.data.transactions), ROWS_PER_PAGE(LayoutOf(stmt))) - 1
        /\ \A k \in 0..(C22_Blocks(Len(stmt.data.transactions), ROWS_PER_PAGE(LayoutOf(stmt))) - 1) :
               /\ C22_Block(stmt.data.transactions, ROWS_PER_PAGE(LayoutOf(stmt)), k)
               /\ C22_Offset + 2 * k + 2 <= Len(story) =>
                      story[C22_Offset + 2 * k + 2] = PageBreak

\* a TxnValue statement of twenty-five transactions: sixteen rows, a page
\* break, nine rows
C22_Witness ==
    /\ pc = "rendered"
    /\ LayoutOf(stmt) = SBI_TXN_VALUE
    /\ Len(stmt.data.transactions) = 25
    /\ stmt.data.meta.account_name = <<>>
    /\ Len(story) = 3
    /\ Len(story[1].rows) = 16
    /\ story[2] = PageBreak
    /\ Len(story[3].rows) = 9
    /\ story[3].rows[1].date = stmt.data.transactions[17].date


\* C23: the story of every statement, one without transactions included, is
\* a metadata block and then at least one table that carries the header row.
C23_MetaThenTable ==
    pc = "rendered" =>
        /\ Len(story) >= 2
        /\ story[1].kind = "MetaTable"
        /\ story[2].kind = "Table"
        /\ story[2].header = HeaderRow(LayoutOf(stmt))


\* the word UPI, in any letter case, is in the text s
C24_HasUpi(s) ==
    \E a \in Offsets(s) :
        /\ MatchesAtCI(s, a, Chars("UPI"))
        /\ ~IsWordChar(CharAt(s, a - 1)) /\ ~IsWordChar(CharAt(s, a + 3))

\* the wrapped description of the i-th transaction: its three sub-lines
C24_Wrapped(i) == _make_three_line_cells(DescFull(stmt.data.transactions[i]))

\* C24: in the PostValue layout, when the wrapped description of a row
\* contains the word UPI, the first sub-line of its description cell holds no
\* word UPI, the second starts with UPI and carries all the remaining text
\* (the two together are the words of the wrapped description, in order), and
\* the third is empty; in every other layout the three sub-lines are those
\* of the wrap heuristic.
C24_UpiOnSecondLine ==
    pc = "rendered" =>
        \A i \in DOMAIN RowsOf(story) :
            /\ Len(RowsOf(story)[i].description) = 3
            /\ (LayoutOf(stmt) = SBI_POST_VALUE /\ C24_HasUpi(Join(C24_Wrapped(i), Sp))) =>
                   /\ ~C24_HasUpi(RowsOf(story)[i].description[1])
                   /\ MatchesAtCI(RowsOf(story)[i].description[2], 0, Chars("UPI"))
                   /\ Words(RowsOf(story)[i].description[1]) \o Words(RowsOf(story)[i].description[2])
                          = Words(Join(C24_Wrapped(i), Sp))
                   /\ RowsOf(story)[i].description[3] = <<>>
            /\ LayoutOf(stmt) # SBI_POST_VALUE =>
                   RowsOf(story)[i].description = C24_Wrapped(i)

\* a PostValue row whose UPI is wrapped onto the second sub-line with text
\* around it: UPI and all that follows it make the second sub-line
C24_Witness ==
    /\ pc = "rendered"
    /\ LayoutOf(stmt) = SBI_POST_VALUE
    /\ Len(stmt.data.transactions) = 1
    /\ stmt.data.transactions[1].description_line1 =
           Chars("PAYMENT TO RAMESH KUMAR STORES VIA UPI COLLECT")
    /\ stmt.data.transactions[1].description_line2 = Chars("REF 77")
    /\ C24_Wrapped(1) =
           <<Chars("PAYMENT TO RAMESH KUMAR STORES"), Chars("VIA UPI COLLECT / REF 77"), <<>>>>
    /\ RowsOf(story)[1].description =
           <<Chars("PAYMENT TO RAMESH KUMAR STORES VIA"), Chars("UPI COLLECT / REF 77"), <<>>>>

----------------------------------------------------------------------------
(* statements/views.py: the requests that create, edit and render the one   *)
(* stored Statement.  lines is the uploaded document, layout the layout     *)
(* field of the upload form (None when the form has none), stmt the stored  *)
(* row (None when there is none) and pc the response to the last request.   *)

\* views.py lines 67-68: request.POST.get(name) or default
PostedOr(field, default) == IF Truthy(field) THEN field ELSE Str(default)

\* views.py lines 75-78: parsed_data with the posted bank and layout
StoredData(parsed_data, bank, posted_layout) ==
    [meta |-> [parsed_data.meta EXCEPT !.bank = bank.str, !.layout = posted_layout],
     transactions |-> parsed_data.transactions]

\* views.py lines 63-90: the row upload_statement saves
NewStatement(parsed_data, bank, posted_layout) ==
    [original_file |-> Str(Chars("statement.pdf")),
     edited_file |-> None,
     data |-> StoredData(parsed_data, bank, posted_layout),
     bank |-> bank.str,
     layout |-> posted_layout]

\* views.py lines 124-131: the row save_statement saves
SavedStatement(statement_obj, updated_data) ==
    [statement_obj EXCEPT
        !.data = updated_data,
        !.bank = IF updated_data.meta.bank # None THEN updated_data.meta.bank ELSE @,
        !.layout = IF updated_data.meta.layout # None THEN updated_data.meta.layout ELSE @]

\* utils.py line 776: the name of the file generate_pdf_from_data returns
PdfName == Chars("statement_1_updated.pdf")

\* views.py lines 153-154, with the balances of the rendered rows written
\* back into the stored transactions
DownloadRewritingBalances(statement_obj) ==
    [statement_obj EXCEPT
        !.edited_file = Str(PdfName),
        !.data.transactions =
            [k \in DOMAIN @ |->
                [@[k] EXCEPT !.balance =
                    running_balance_global(statement_obj.data.meta.opening_balance,
                                           statement_obj.data.transactions, k)]]]

\* views.py lines 152-154: the row after stmt.edited_file.save(..., save=True)
download_statement(statement_obj) == [statement_obj EXCEPT !.edited_file = Str(PdfName)]

\* the bodies of the documents uploaded through the views
ViewBodies ==
    {<<>>, <<RowLine(RowAtm)>>, <<RowLine(RowUpiCr), RowLine(RowOne)>>,
     <<RowLine(RowAtmSeparated), Chars("Page No 2"), RowLine(RowUpiDr)>>}
ViewDocuments == {h \o b : h \in {HeadPost, HeadTxn, HeadDetails, HeadPlain}, b \in ViewBodies}

\* the layout field of the upload form
PostedLayouts == Hints \cup {Str(SBI_TXN_VALUE)}

\* the layout an edited meta may carry: none, an empty one, or a variant
EditedLayouts == {None, Str(<<>>), Str(SBI_POST_VALUE), Str(SBI_TXN_VALUE)}

\* the data the editing page may post for the stored data: the same data,
\* a transaction removed, an amount changed, another layout in the meta
Edits(data) ==
    {data}
    \cup (IF data.transactions = <<>> THEN {}
          ELSE {[data EXCEPT !.transactions = SubSeq(@, 1, Len(@) - 1)],
                [data EXCEPT !.transactions[1].debit = Dec(10, 0)]})
    \cup {[data EXCEPT !.meta.layout = l] : l \in EditedLayouts}

\* request.POST.get('data_json'): absent, empty, not JSON, JSON that is no
\* object, or an object
DataJsons(data) ==
    {[kind |-> k, value |-> data] : k \in {"missing", "empty", "invalid", "array"}}
    \cup {[kind |-> "object", value |-> d] : d \in Edits(data)}

InitViews ==
    /\ lines \in ViewDocuments
    /\ layout \in PostedLayouts
    /\ parsed = NoParse
    /\ stmt = None /\ story = <<>>
    /\ AmountIdle /\ NormalizeIdle
    /\ ScanIdle
    /\ pc = "dashboard"

\* upload_statement with anything but a valid POST: no row is made
UploadRefused ==
    /\ pc = "dashboard"
    /\ \E method \in {"GET", "POST"}, valid \in BOOLEAN :
           /\ ~(method = "POST" /\ valid)
           /\ pc' = IF method = "POST" THEN "dashboard_errors" ELSE "dashboard_redirect"
    /\ UNCHANGED <<scanVars, amtVars, lines, normVars, parseVars, renderVars>>

\* utils.py lines 32-45 and 410: PdfReader reads the upload or raises
ExtractedAndParsed(readable, ls, hint) ==
    IF readable THEN parse_pdf_to_data(ls, hint)
    ELSE [auto |-> None, use_layout |-> <<>>, result |-> Raised("PdfReadError")]

\* upload_statement, lines 57-92, with a valid POST and the row saved on
\* line 63, before the document is parsed
UploadSavingBeforeParse ==
    /\ pc = "dashboard"
    /\ \E bank \in {None, Str(Chars("SBI"))}, readable \in BOOLEAN :
           /\ parsed' = ExtractedAndParsed(readable, lines, PostedOr(layout, SBI_POST_VALUE))
           /\ IF parsed'.result.exc = "none"
              THEN /\ stmt' = NewStatement(parsed'.result.value, PostedOr(bank, Chars("SBI")),
                                           PostedOr(layout, SBI_POST_VALUE))
                   /\ pc' = "edit_redirect"
              ELSE /\ stmt' = NewStatement([meta |-> MetaDefaults, transactions |-> <<>>],
                                           PostedOr(bank, Chars("SBI")),
                                           PostedOr(layout, SBI_POST_VALUE))
                   /\ pc' = "upload_error"
    /\ UNCHANGED <<scanVars, amtVars, lines, normVars, layout, story>>

\* upload_statement, lines 57-92, with a valid POST
UploadStatement ==
    /\ pc = "dashboard"
    /\ \E bank \in {None, Str(Chars("SBI"))}, readable \in BOOLEAN :
           /\ parsed' = ExtractedAndParsed(readable, lines, PostedOr(layout, SBI_POST_VALUE))
           /\ IF parsed'.result.exc = "none"
              THEN /\ stmt' = NewStatement(parsed'.result.value, PostedOr(bank, Chars("SBI")),
                                           PostedOr(layout, SBI_POST_VALUE))
                   /\ pc' = "edit_redirect"
              ELSE /\ stmt' = stmt
                   /\ pc' = "upload_error"
    /\ UNCHANGED <<scanVars, amtVars, lines, normVars, layout, story>>

\* edit_statement, lines 102-109
EditStatement ==
    /\ stmt # None
    /\ pc' = "edit_page"
    /\ UNCHANGED <<scanVars, amtVars, lines, normVars, parseVars, renderVars>>

\* save_statement, lines 113-136; updated_data.get of line 126 raises for
\* JSON that is no object, before stmt.save()
SaveStatement ==
    /\ stmt # None
    /\ \E method \in {"GET", "POST"}, data_json \in DataJsons(stmt.data),
          action \in {"save", "download"} :
           IF method # "POST" THEN pc' = "forbidden" /\ stmt' = stmt
           ELSE IF data_json.kind \in {"missing", "empty", "invalid"}
                THEN pc' = "bad_request" /\ stmt' = stmt
           ELSE IF data_json.kind = "array" THEN pc' = "attribute_error" /\ stmt' = stmt
           ELSE /\ stmt' = SavedStatement(stmt, data_json.value)
                /\ pc' = IF action = "save" THEN "edit_redirect" ELSE "download_redirect"
    /\ UNCHANGED <<scanVars, amtVars, lines, normVars, parseVars, story>>

\* download_statement, lines 151-155
DownloadStatement ==
    /\ stmt # None
    /\ story' = generate_pdf_from_data(stmt)
    /\ stmt' = download_statement(stmt)
    /\ pc' = "file"
    /\ UNCHANGED <<scanVars, amtVars, lines, normVars, parseVars>>

NextViews ==
    \/ UploadRefused
    \/ UploadStatement
    \/ EditStatement
    \/ SaveStatement
    \/ DownloadStatement

SpecViews == InitViews /\ [][NextViews]_vars

\* C11: rendering never changes the statement: a download leaves its meta
\* and transactions (and its bank, layout and original file) exactly as they
\* were; only the edited file changes.
C11_RenderingReadsOnly ==
    [][(stmt # None /\ pc' = "file") =>
          /\ stmt'.data = stmt.data
          /\ stmt' = [stmt EXCEPT !.edited_file = stmt'.edited_file]]_vars

\* a statement whose first stored balance is not the running total has been
\* rendered and its file saved
C11_Witness ==
    /\ pc = "file"
    /\ stmt.edited_file = Str(PdfName)
    /\ stmt.data.transactions # <<>>
    /\ stmt.data.transactions[1].balance #
           stmt.data.meta.opening_balance + stmt.data.transactions[1].credit
               - stmt.data.transactions[1].debit
    /\ Len(RowsOf(story)) = Len(stmt.data.transactions)

\* C13: once a statement is stored, whatever uploads, saves and downloads
\* follow, the layout recorded for it and the layout the renderer uses are the
\* layout whose parser produced it.
C13_OneVariant ==
    stmt # None =>
        /\ stmt.layout = Str(parsed.use_layout)
        /\ LayoutOf(stmt) = parsed.use_layout

\* the first lines announce TxnValue and not PostValue
C14_TxnHeaded ==
    /\ ContainsAll(Sample(lines), {Chars("TXN DATE"), Chars("VALUE DATE")})
    /\ ~ContainsAll(Sample(lines), {Chars("POST DATE"), Chars("VALUE DATE"), Chars("DESCRIPTION")})

\* C14: an upload without a layout field of a document whose first lines
\* contain TXN DATE and VALUE DATE, and not the PostValue triple, is parsed
\* by the TxnValue parser and stored as TxnValue.
C14_AutoDetectedUpload ==
    (parsed # NoParse /\ layout = None /\ C14_TxnHeaded) =>
        /\ parsed.use_layout = SBI_TXN_VALUE
        /\ stmt # None
        /\ stmt.data.meta.layout = Str(SBI_TXN_VALUE)


\* the responses of a request that failed
C25_Failed ==
    {"dashboard_redirect", "dashboard_errors", "upload_error", "forbidden", "bad_request",
     "attribute_error"}

\* C25: a failed operation leaves the stored statement as it was.  An upload
\* stores a statement only when parse_pdf_to_data has returned, so that an
\* unsupported layout or an unreadable document stores nothing; a save that
\* is no POST, or has no data_json, or one that is not JSON, answers with an
\* error and leaves the stored data, bank and layout as they were.
C25_FailureStoresNothing ==
    [][/\ pc' \in C25_Failed => stmt' = stmt
       /\ (stmt = None /\ stmt' # None) =>
              /\ parsed'.result.exc = "none"
              /\ stmt'.data.transactions = parsed'.result.value.transactions
       /\ pc' \in {"forbidden", "bad_request"} =>
              /\ stmt # None
              /\ stmt'.data = stmt.data /\ stmt'.bank = stmt.bank /\ stmt'.layout = stmt.layout]_vars

\* a save without usable data_json answered with an error, the stored
\* statement being the one the upload made with its two transactions
C25_Witness ==
    /\ pc = "bad_request"
    /\ parsed.result.exc = "none"
    /\ stmt = NewStatement(parsed.result.value, Str(Chars("SBI")), PostedOr(layout, SBI_POST_VALUE))
    /\ Len(stmt.data.transactions) = 2

----------------------------------------------------------------------------
(* The segmentation loops of the two parsers, one iteration at a time.      *)
(* scan holds the loop's index i (the number of lines passed) and its       *)
(* locals; layout is the layout whose parser runs.                          *)

MaxTableLines == 3
MaxScanLines == 4
MaxDateLines == 3

\* what precedes the table of a PostValue document: nothing, the header
\* alone, header and columns in both orders, both on one line, a row between
\* the two
ScanHeadSix == Chars("Post Date Value Date Description Debit Credit Balance")
ScanHeads ==
    {<<>>, <<HeadPost[1]>>, HeadPost, <<HeadPost[2], HeadPost[1]>>, <<ScanHeadSix>>,
     <<ScanHeadSix, HeadPost[2]>>, <<HeadPost[1], RowLine(RowAtm), HeadPost[2]>>}

\* lines of a PostValue table: rows with and without trailing text, a
\* continuation line, a page footer and the header repeated on a later page
PVScanLines ==
    {RowLine(RowAtm), Chars("03-04-2024 03-04-2024"), Chars("UPI/CR/55"), Chars("Page 2 of 3"),
     HeadPost[1], HeadPost[2]}

\* lines of a TxnValue table: a row, a line with one date, a continuation
\* line and the stop lines
TVScanLines ==
    {RowLine(RowUpiCr), Chars("08/04/2024 ATM WDL 50.00 750.00"), Chars("25.00 75.00"),
     Chars("Page No 2"), Chars("Total 100.00"), Chars("Closing Balance 750.00")}

PVScanDocuments == {h \o b : h \in ScanHeads, b \in SeqsUpTo(PVScanLines, MaxTableLines)}
TVScanDocuments == SeqsUpTo(TVScanLines, MaxScanLines)
\* documents whose dates are split over two and three lines
DateScanDocuments == SeqsUpTo(NormLinePool, MaxDateLines)

InitSegment ==
    /\ \/ layout = Str(SBI_POST_VALUE) /\ lines \in PVScanDocuments
       \/ layout = Str(SBI_TXN_VALUE) /\ lines \in TVScanDocuments \cup DateScanDocuments
    /\ parsed = NoParse
    /\ scan = None
    /\ AmountIdle /\ NormalizeIdle /\ RenderIdle
    /\ pc = "segment"

\* _normalize_multiline_dates, lines 49-55: up to the while loop
NormalizeBegin ==
    /\ pc = "segment"
    /\ scan' = [i |-> 0, out |-> <<>>]
    /\ pc' = "normalize_loop"
    /\ UNCHANGED <<amtVars, lines, normVars, parseVars, renderVars>>

\* lines 56-67: one iteration of the while loop
NormalizeIteration ==
    /\ pc = "normalize_loop" /\ scan.i < Len(lines)
    /\ scan' = NormalizeStep(lines, scan.i, scan.out)
    /\ UNCHANGED <<amtVars, lines, normVars, parseVars, renderVars, pc>>

\* line 68: return out
NormalizeEnd ==
    /\ pc = "normalize_loop" /\ scan.i >= Len(lines)
    /\ normalized' = scan.out
    /\ scan' = None
    /\ pc' = "normalized"
    /\ UNCHANGED <<amtVars, lines, renormalized, parseVars, renderVars>>

\* _parse_sbi_post_value, lines 75-99: from the normalized lines up to the
\* for loop
PVBegin ==
    /\ pc = "normalized" /\ layout = Str(SBI_POST_VALUE)
    /\ scan' = [i |-> 0, st |-> PVStart]
    /\ pc' = "pv_loop"
    /\ UNCHANGED <<amtVars, lines, normVars, parseVars, renderVars>>

\* lines 101-124: one iteration of the for loop
PVLine ==
    /\ pc = "pv_loop" /\ scan.i < Len(normalized)
    /\ scan' = [i |-> scan.i + 1, st |-> PVSegmentStep(scan.st, normalized[scan.i + 1])]
    /\ UNCHANGED <<amtVars, lines, normVars, parseVars, renderVars, pc>>

\* lines 126-127: after the for loop
PVEnd ==
    /\ pc = "pv_loop" /\ scan.i = Len(normalized)
    /\ scan' = [scan EXCEPT !.st.transactions_raw = PVClosed(scan.st)]
    /\ pc' = "pv_done"
    /\ UNCHANGED <<amtVars, lines, normVars, parseVars, renderVars>>

\* _parse_sbi_txn_value, lines 190-208: from the normalized lines up to the
\* first while loop
TVBegin ==
    /\ pc = "normalized" /\ layout = Str(SBI_TXN_VALUE)
    /\ scan' = TVStart
    /\ pc' = "primary_loop"
    /\ UNCHANGED <<amtVars, lines, normVars, parseVars, renderVars>>

\* lines 209-229: one iteration of the outer while loop
PrimaryIteration ==
    /\ pc = "primary_loop" /\ scan.i < Len(normalized)
    /\ scan' = PrimaryStep(normalized, scan.i, scan.raw)
    /\ UNCHANGED <<amtVars, lines, normVars, parseVars, renderVars, pc>>

\* lines 231-233: after the first loop, into the permissive one or past it
PrimaryEnd ==
    /\ pc = "primary_loop" /\ scan.i >= Len(normalized)
    /\ IF FallbackNeeded(scan.raw)
       THEN scan' = [scan EXCEPT !.i = 0] /\ pc' = "fallback_loop"
       ELSE scan' = scan /\ pc' = "tv_done"
    /\ UNCHANGED <<amtVars, lines, normVars, parseVars, renderVars>>

\* lines 234-252: one iteration of the outer while loop
FallbackIteration ==
    /\ pc = "fallback_loop" /\ scan.i < Len(normalized)
    /\ scan' = FallbackStep(normalized, scan.i, scan.raw)
    /\ UNCHANGED <<amtVars, lines, normVars, parseVars, renderVars, pc>>

\* line 234: the permissive loop ends
FallbackEnd ==
    /\ pc = "fallback_loop" /\ scan.i >= Len(normalized)
    /\ pc' = "tv_done"
    /\ UNCHANGED <<scanVars, amtVars, lines, normVars, parseVars, renderVars>>

NextSegment ==
    \/ NormalizeBegin
    \/ NormalizeIteration
    \/ NormalizeEnd
    \/ PVBegin
    \/ PVLine
    \/ PVEnd
    \/ TVBegin
    \/ PrimaryIteration
    \/ PrimaryEnd
    \/ FallbackIteration
    \/ FallbackEnd

SpecSegment == InitSegment /\ [][NextSegment]_vars

\* the state of the PostValue segmenter: 0 is SeekingHeader, 1 is
\* SeekingTableStart, 2 is InTable
C15_State(st) == IF st.in_table THEN 2 ELSE IF st.header_seen THEN 1 ELSE 0

\* the i first lines hold a header line
C15_HeaderSeen(ls, i) == \E h \in 1..i : PVHeaderLine(StrUpper(ls[h]))

\* the i first lines hold a header line and, after it, a columns line
C15_ColumnsSeen(ls, i) ==
    \E h \in 1..i, c \in 1..i :
        h < c /\ PVHeaderLine(StrUpper(ls[h])) /\ PVColumnsLine(StrUpper(ls[c]))

\* C15: the PostValue segmenter has no block, open or closed, before it is
\* InTable; it is past SeekingHeader only after a line with POST DATE, VALUE
\* DATE and DESCRIPTION and InTable only after such a line and, after it, a
\* line with DEBIT, CREDIT and BALANCE; a line passed leaves its state where
\* it is or moves it one state forward, never back.
C15_TableAfterHeader ==
    [][pc' \in {"pv_loop", "pv_done"} =>
          /\ C15_State(scan'.st) < 2 =>
                 scan'.st.current = None /\ scan'.st.transactions_raw = <<>>
          /\ C15_State(scan'.st) >= 1 => C15_HeaderSeen(normalized', scan'.i)
          /\ C15_State(scan'.st) = 2 => C15_ColumnsSeen(normalized', scan'.i)
          /\ pc = "pv_loop" =>
                 C15_State(scan'.st) \in {C15_State(scan.st), C15_State(scan.st) + 1}]_vars

\* a row between the header and the columns line opens no block; the rows
\* after the columns line do
C15_Witness ==
    /\ pc = "pv_done"
    /\ lines = <<HeadPost[1], RowLine(RowAtm), HeadPost[2], Chars("03-04-2024 03-04-2024"),
                 Chars("UPI/CR/55")>>
    /\ C15_State(scan.st) = 2
    /\ scan.st.transactions_raw =
           <<[date |-> Chars("03-04-2024"), value_date |-> Chars("03-04-2024"),
              lines |-> <<Chars("UPI/CR/55")>>]>>

\* a header line or a columns line, as lines 103 and 106 test them
C16_HeadLine(line) == PVHeaderLine(StrUpper(line)) \/ PVColumnsLine(StrUpper(line))

\* a page footer
C16_PageLine(line) == StartsWith(StrLower(line), Chars("page"))

\* the block a line with two dates opens
C16_Opened(line) ==
    [date |-> date_line_pattern(line).d1,
     value_date |-> date_line_pattern(line).d2,
     lines |-> IF Strip(date_line_pattern(line).rest) # <<>>
               THEN <<Strip(date_line_pattern(line).rest)>> ELSE <<>>]

\* C16 as the claim states it: InTable with a block open, a line with two
\* dates closes the block and opens the next, a line beginning with "page"
\* changes nothing, every other line is appended to the open block, and the
\* end of the input closes the block.
C16_Continuation ==
    [][(pc = "pv_loop" /\ scan.st.in_table /\ scan.st.current # None) =>
          IF pc' = "pv_done"
          THEN scan'.st.transactions_raw = Append(scan.st.transactions_raw, scan.st.current)
          ELSE IF date_line_pattern(normalized[scan'.i]).matched
          THEN /\ scan'.st.transactions_raw = Append(scan.st.transactions_raw, scan.st.current)
               /\ scan'.st.current = C16_Opened(normalized[scan'.i])
          ELSE IF C16_PageLine(normalized[scan'.i]) THEN scan'.st = scan.st
          ELSE scan'.st = [scan.st EXCEPT !.current.lines = Append(@, normalized[scan'.i])]]_vars

\* C16, amended: InTable with a block open, a line that holds POST DATE,
\* VALUE DATE and DESCRIPTION, or DEBIT, CREDIT and BALANCE, changes nothing;
\* of the other lines, a line with two dates closes the block and opens the
\* next, a line beginning with "page" changes nothing and every other line is
\* appended to the open block; the end of the input closes the block.
C16_ContinuationPastHeads ==
    [][(pc = "pv_loop" /\ scan.st.in_table /\ scan.st.current # None) =>
          IF pc' = "pv_done"
          THEN scan'.st.transactions_raw = Append(scan.st.transactions_raw, scan.st.current)
          ELSE IF C16_HeadLine(normalized[scan'.i]) THEN scan'.st = scan.st
          ELSE IF date_line_pattern(normalized[scan'.i]).matched
          THEN /\ scan'.st.transactions_raw = Append(scan.st.transactions_raw, scan.st.current)
               /\ scan'.st.current = C16_Opened(normalized[scan'.i])
          ELSE IF C16_PageLine(normalized[scan'.i]) THEN scan'.st = scan.st
          ELSE scan'.st = [scan.st EXCEPT !.current.lines = Append(@, normalized[scan'.i])]]_vars

\* a row, the header of the next page, a continuation line: the block holds
\* the row's text and the continuation line
C16_Witness ==
    /\ pc = "pv_done"
    /\ lines = HeadPost \o <<RowLine(RowAtm), HeadPost[1], Chars("UPI/CR/55")>>
    /\ scan.st.transactions_raw =
           <<[date |-> Chars("01-04-2024"), value_date |-> Chars("02-04-2024"),
              lines |-> <<Chars("ATM WDL 500.00 4500.00"), Chars("UPI/CR/55")>>]>>

\* the start lines of the primary strategy among the first upto lines
C17_Starts(ls, upto) == {k \in 1..Min2(upto, Len(ls)) : row_start(ls[k]).matched}

\* the stop sentinels: PAGE NO at the start, CLOSING BALANCE or SUMMARY
\* anywhere, TOTAL at the start, in any case
C17_Sentinel(line) ==
    \/ StartsWith(StrUpper(line), Chars("PAGE NO"))
    \/ Contains(StrUpper(line), Chars("CLOSING BALANCE"))
    \/ Contains(StrUpper(line), Chars("SUMMARY"))
    \/ StartsWith(StrUpper(line), Chars("TOTAL"))

\* the first line after line s that is a start line or a stop sentinel, the
\* line after the last one if there is none
C17_End(ls, s) ==
    Min({k \in (s + 1)..Len(ls) : row_start(ls[k]).matched \/ C17_Sentinel(ls[k])}
        \cup {Len(ls) + 1})

\* the block of the start line s: its dates, and its trailing text with the
\* lines that follow it up to the end of the block
C17_Block(ls, s) ==
    [date |-> Strip(row_start(ls[s]).d1),
     value_date |-> Strip(row_start(ls[s]).d2),
     text |-> Strip(Join(<<Strip(row_start(ls[s]).rest)>> \o SubSeq(ls, s + 1, C17_End(ls, s) - 1), Sp))]

\* the members of a set of numbers, in increasing order
RECURSIVE C17_Ascending(_)
C17_Ascending(S) == IF S = {} THEN <<>> ELSE <<Min(S)>> \o C17_Ascending(S \ {Min(S)})

\* the blocks of the start lines among the first upto lines, in their order
C17_Blocks(ls, upto) ==
    [n \in 1..Cardinality(C17_Starts(ls, upto)) |->
        C17_Block(ls, C17_Ascending(C17_Starts(ls, upto))[n])]

\* C17: all along the primary strategy, the blocks found are those of the
\* start lines passed, one for each: the start line's trailing text and the
\* lines after it up to, and without, the first line that is a start line or
\* a stop sentinel; a sentinel and the lines between it and the next start
\* line are in no block.
C17_PrimaryBlocks ==
    pc = "primary_loop" => scan.raw = C17_Blocks(normalized, scan.i)

\* a row, a continuation line, a stop line and a line after it: the block
\* ends before the stop line, the line after it is in no block
C17_Witness ==
    /\ pc = "tv_done"
    /\ lines = <<RowLine(RowUpiCr), Chars("25.00 75.00"), Chars("Total 100.00"), Chars("25.00 75.00")>>
    /\ Len(scan.raw) = 1
    /\ scan.raw[1].text = Chars("BY TRANSFER UPI/CR/55 300.00 800.00 25.00 75.00")

\* what the permissive strategy alone makes of the document
C18_Permissive(ls) == FallbackLoop(ls, TVStart, 0, Len(ls) - 1).raw

\* C18: the permissive strategy runs only on a document in which the primary
\* strategy finds no block, and the blocks of the document are those of the
\* primary strategy, or else, when there are none, those of the permissive
\* strategy: never blocks of both.
C18_OneStrategy ==
    /\ pc = "fallback_loop" => C17_Starts(normalized, Len(normalized)) = {}
    /\ pc = "tv_done" =>
           scan.raw = IF C17_Starts(normalized, Len(normalized)) # {}
                      THEN C17_Blocks(normalized, Len(normalized))
                      ELSE C18_Permissive(normalized)

\* no line with two dates: the permissive strategy makes a block of the line
\* with one date and the line after it
C18_Witness ==
    /\ pc = "tv_done"
    /\ lines = <<Chars("25.00 75.00"), Chars("08/04/2024 ATM WDL 50.00 750.00"), Chars("25.00 75.00")>>
    /\ C17_Starts(normalized, Len(normalized)) = {}
    /\ scan.raw =
           <<[date |-> Chars("08/04/2024"), value_date |-> Chars("ATM"),
              text |-> Chars("WDL 50.00 750.00 25.00 75.00")]>>

\* C19: the permissive strategy stops a block at the stop sentinels of the
\* primary strategy: no line it appends to a block is a line the primary
\* strategy stops at, and the line it stops at, when not a start line, is one.
C19_SameSentinels ==
    [][(pc = "fallback_loop" /\ pc' = "fallback_loop" /\ Len(scan'.raw) > Len(scan.raw)) =>
          /\ \A k \in (scan.i + 2)..scan'.i : ~C17_Sentinel(normalized[k])
          /\ (scan'.i < Len(normalized) /\ ~permissive(normalized[scan'.i + 1])) =>
                 C17_Sentinel(normalized[scan'.i + 1])]_vars

\* the loops, run an iteration at a time, end with what the parsers compute
SegmentedAsParsed ==
    /\ pc = "normalized" => normalized = _normalize_multiline_dates(lines)
    /\ pc = "pv_done" => scan.st.transactions_raw = PVSegment(normalized)
    /\ pc = "tv_done" => scan.raw = TVSegment(normalized)



\* C26: in the line normalizer and in the two strategies of the TxnValue
\* segmenter every iteration of the outer loop ends with a greater scan
\* index, at most the number of lines, also when it closed a block at a stop
\* line or at the next start line: each loop makes at most len(lines)
\* iterations.
C26_IndexAdvances ==
    [][/\ (pc = "normalize_loop" /\ pc' = "normalize_loop") =>
              scan'.i > scan.i /\ scan'.i <= Len(lines)
       /\ (pc = "primary_loop" /\ pc' = "primary_loop") =>
              scan'.i > scan.i /\ scan'.i <= Len(normalized)
       /\ (pc = "fallback_loop" /\ pc' = "fallback_loop") =>
              scan'.i > scan.i /\ scan'.i <= Len(normalized)]_vars

\* the primary strategy has closed the block of the first row at a stop
\* line, and scans on from that line, a second row still ahead
C26_Witness ==
    /\ pc = "primary_loop"
    /\ lines = <<RowLine(RowUpiCr), Chars("25.00 75.00"), Chars("Total 100.00"), RowLine(RowUpiCr)>>
    /\ scan.i = 2
    /\ Len(scan.raw) = 1
    /\ PrimarySentinel(normalized[scan.i + 1])

----------------------------------------------------------------------------
(* The classification loop of _parse_sbi_txn_value, lines 257-393, one     *)
(* block at a time, over TxnValue tables whose rows carry the debit and    *)
(* credit keywords and the transfer references of lines 309-330.           *)

MaxClassRows == 2

\* descriptions with no keyword, with '/CR' alone, with keywords of both
\* sides, with 'BY TRANSFER' and a debit keyword, and with debit keywords only
ClassDescs ==
    {Chars("NEFT RAMESH"), Chars("NEFT/CR RAMESH"), Chars("DEBIT CARD CREDIT"),
     Chars("BY TRANSFER ATM WDL"), Chars("ATM WDL")}

\* what follows the description: nothing, or a transfer and its account
ClassRefs == {<<>>, Chars("TRANSFER TO 123456"), Chars("TRANSFER FROM 123456")}

ClassAmounts == <<Plain(300, Frac00), Plain(800, Frac00)>>

ClassRow(desc, ref) ==
    [d1 |-> Chars("04-04-2024"), d2 |-> Chars("04-04-2024"),
     desc |-> IF ref = <<>> THEN desc ELSE desc \o Sp \o ref,
     amounts |-> ClassAmounts]

ClassRows == {ClassRow(d, r) : d \in ClassDescs, r \in ClassRefs} \cup {RowBare}
ClassDocuments == SeqsUpTo({RowLine(r) : r \in ClassRows}, MaxClassRows)

InitClassify ==
    /\ lines \in ClassDocuments
    /\ layout = Str(SBI_TXN_VALUE)
    /\ parsed = NoParse
    /\ scan = None
    /\ AmountIdle /\ NormalizeIdle /\ RenderIdle
    /\ pc = "classify"

\* lines 188-255: up to the for loop over the blocks
ClassifyBegin ==
    /\ pc = "classify"
    /\ normalized' = _normalize_multiline_dates(lines)
    /\ scan' = [i |-> 0, raw |-> TVSegment(_normalize_multiline_dates(lines)),
                transactions |-> <<>>]
    /\ pc' = "classify_loop"
    /\ UNCHANGED <<amtVars, lines, renormalized, parseVars, renderVars>>

\* lines 257-393: one iteration of the for loop
ClassifyBlock ==
    /\ pc = "classify_loop" /\ scan.i < Len(scan.raw)
    /\ scan' = [scan EXCEPT !.i = scan.i + 1,
                            !.transactions = Append(scan.transactions,
                                                    TVClassify(scan.raw[scan.i + 1]))]
    /\ UNCHANGED <<amtVars, lines, normVars, parseVars, renderVars, pc>>

\* lines 395-401: after the for loop
ClassifyEnd ==
    /\ pc = "classify_loop" /\ scan.i = Len(scan.raw)
    /\ parsed' = [auto |-> None, use_layout |-> SBI_TXN_VALUE,
                  result |-> Returned(TVParsed(ExtractMeta(MetaDefaults, normalized),
                                               scan.transactions))]
    /\ pc' = "parsed"
    /\ UNCHANGED <<scanVars, amtVars, lines, normVars, layout, renderVars>>

NextClassify ==
    \/ ClassifyBegin
    \/ ClassifyBlock
    \/ ClassifyEnd

SpecClassify == InitClassify /\ [][NextClassify]_vars

\* the description of a row matches keywords of both sides or of neither
C21_Tied(desc) ==
    ContainsAny(StrUpper(desc), TVCreditKeywords) = ContainsAny(StrUpper(desc), TVDebitKeywords)

\* the description of a row holds '/CR' or 'BY TRANSFER'
C21_CreditMark(desc) ==
    Contains(StrUpper(desc), Chars("/CR")) \/ Contains(StrUpper(desc), Chars("BY TRANSFER"))

\* the transaction t has the amount of the rows as its debit, as its credit
C21_Debit(t) ==
    /\ t.debit = TokenValue(ClassAmounts[1]) /\ t.credit = 0
    /\ t.orig_debit_text = TokenText(ClassAmounts[1]) /\ t.orig_credit_text = <<>>
C21_Credit(t) ==
    /\ t.credit = TokenValue(ClassAmounts[1]) /\ t.debit = 0
    /\ t.orig_credit_text = TokenText(ClassAmounts[1]) /\ t.orig_debit_text = <<>>

\* the k-th line of the document is the row of description d and reference r
C21_RowAt(k, d, r) == k \in DOMAIN lines /\ lines[k] = RowLine(ClassRow(d, r))

\* C21 as stated: in the TxnValue classifier, a description that matches a
\* debit keyword and a credit keyword, or neither, has its amount classified
\* as credit when it contains '/CR' or 'BY TRANSFER' and as debit otherwise.
C21_DebitUnlessMarked ==
    pc = "parsed" =>
        \A k \in DOMAIN Statement.transactions : \A d \in ClassDescs : \A r \in ClassRefs :
            (C21_RowAt(k, d, r) /\ C21_Tied(d)) =>
                IF C21_CreditMark(d) THEN C21_Credit(Statement.transactions[k])
                ELSE C21_Debit(Statement.transactions[k])

\* C21 amended: such a description next to an extracted reference
\* 'TRANSFER TO' has its amount classified as debit, next to an extracted
\* reference 'TRANSFER FROM' as credit, and only without either as credit
\* when it contains '/CR' or 'BY TRANSFER' and as debit otherwise.
C21_ReferenceThenMark ==
    pc = "parsed" =>
        \A k \in DOMAIN Statement.transactions : \A d \in ClassDescs : \A r \in ClassRefs :
            (C21_RowAt(k, d, r) /\ C21_Tied(d)) =>
                /\ Statement.transactions[k].cheque_ref = r
                /\ IF r = Chars("TRANSFER TO 123456") THEN C21_Debit(Statement.transactions[k])
                   ELSE IF r = Chars("TRANSFER FROM 123456")
                        THEN C21_Credit(Statement.transactions[k])
                   ELSE IF C21_CreditMark(d) THEN C21_Credit(Statement.transactions[k])
                   ELSE C21_Debit(Statement.transactions[k])

\* a description without keywords credited by its reference, and one with
\* '/CR' debited by its reference
C21_Witness ==
    /\ pc = "parsed"
    /\ lines = <<RowLine(ClassRow(Chars("NEFT RAMESH"), Chars("TRANSFER FROM 123456"))),
                 RowLine(ClassRow(Chars("NEFT/CR RAMESH"), Chars("TRANSFER TO 123456")))>>
    /\ Len(Statement.transactions) = 2
    /\ C21_Credit(Statement.transactions[1])
    /\ C21_Debit(Statement.transactions[2])

====
